---- MODULE Spec2Model ----
(***************************************************************************)
(* Site mapper: the SiteMap aggregate (models.py), the link extractor      *)
(* (crawler.py) and the two crawl loops that drive them,                   *)
(* Orchestrator._map_site_async (orchestrator.py) and crawl (app.py).      *)
(*                                                                         *)
(* A URL string is a record [dom, path, slash, ext]: its registrable        *)
(* domain, its path, whether the string ends in "/", and the characters    *)
(* after the last "." of the path, <<>> when it has none.  Two URL strings *)
(* are equal exactly when the four fields are.  An element is a record     *)
(* [id, type, text, selector, page_url].                                   *)
(***************************************************************************)
EXTENDS Integers, Sequences, FiniteSets, TLC

\* ------------------------------------------------------------ bounds
NumPaths == 7
MaxBudget == 2
MaxLog == 2

\* The per-page cap on enqueued HTML links, new_links[:5] / links[:5].
LinkCap == 5
\* The cap of extract_internal_links, links[:100].
MaxLinks == 100

\* ------------------------------------------------------------ values
Paths == 0 .. (NumPaths - 1)
Doms == {"site", "other"}
Texts == {"t1", "t2"}
Selectors == {"#a", "#b"}

MkUrl(d, p, s) == [dom |-> d, path |-> p, slash |-> s, ext |-> <<>>]
SiteUrl(p) == MkUrl("site", p, FALSE)
StartUrl == SiteUrl(0)

Range(s) == {s[i] : i \in 1 .. Len(s)}
Min(a, b) == IF a <= b THEN a ELSE b
Take(s, n) == SubSeq(s, 1, Min(n, Len(s)))
IsPrefix(s, t) == Len(s) <= Len(t) /\ SubSeq(t, 1, Len(s)) = s
NoDup(s) == \A i, j \in 1 .. Len(s) : s[i] = s[j] => i = j

\* ------------------------------------------------------------ str
\* A Python str that is inspected character by character is a sequence of
\* one-character strings.
LowerChar(c) ==
  CASE c = "A" -> "a" [] c = "B" -> "b" [] c = "C" -> "c" [] c = "D" -> "d"
    [] c = "E" -> "e" [] c = "F" -> "f" [] c = "G" -> "g" [] c = "H" -> "h"
    [] c = "I" -> "i" [] c = "J" -> "j" [] c = "K" -> "k" [] c = "L" -> "l"
    [] c = "M" -> "m" [] c = "N" -> "n" [] c = "O" -> "o" [] c = "P" -> "p"
    [] c = "Q" -> "q" [] c = "R" -> "r" [] c = "S" -> "s" [] c = "T" -> "t"
    [] c = "U" -> "u" [] c = "V" -> "v" [] c = "W" -> "w" [] c = "X" -> "x"
    [] c = "Y" -> "y" [] c = "Z" -> "z" [] OTHER -> c

\* str.lower()
Lower(s) == [i \in 1 .. Len(s) |-> LowerChar(s[i])]

\* ------------------------------------------------------------ crawler.py
get_domain(u) == u.dom

\* rstrip("/"): the scheme prefix is already present on every URL of the model.
ensure_http(u) == [u EXCEPT !.slash = FALSE]

same_site_any(base, u) == TRUE

same_site(base, u) == get_domain(base) = get_domain(u)

\* ------------------------------------------------------------ models.py
\* SiteMap(url=..., domain=...): every list empty, every counter 0.
NewSiteMap ==
  [pages |-> <<>>, elements |-> <<>>, pages_crawled |-> 0,
   elements_discovered |-> 0, exploration_log |-> <<>>]

KeyPresent(sm, element) ==
  \E i \in 1 .. Len(sm.elements) :
    /\ sm.elements[i].selector = element.selector
    /\ sm.elements[i].page_url = element.page_url

add_element_nocheck(sm, element) ==
  [sm EXCEPT !.elements = Append(sm.elements, element),
             !.elements_discovered = Len(sm.elements) + 1]

add_element(sm, element) ==
  IF KeyPresent(sm, element)
  THEN sm
  ELSE [sm EXCEPT !.elements = Append(sm.elements, element),
                  !.elements_discovered = Len(sm.elements) + 1]

add_page_front(sm, url) ==
  IF url \in Range(sm.pages)
  THEN sm
  ELSE [sm EXCEPT !.pages = <<url>> \o sm.pages,
                  !.pages_crawled = Len(sm.pages) + 1]

add_page_stale(sm, url) ==
  IF url \in Range(sm.pages)
  THEN sm
  ELSE [sm EXCEPT !.pages = Append(sm.pages, url)]

add_page(sm, url) ==
  IF url \in Range(sm.pages)
  THEN sm
  ELSE [sm EXCEPT !.pages = Append(sm.pages, url),
                  !.pages_crawled = Len(sm.pages) + 1]

log(sm, message) ==
  [sm EXCEPT !.exploration_log = Append(sm.exploration_log, message)]


\* Element(...) as app code and tests build it.
MkElement(i, ty, t, s, u) ==
  [id |-> i, type |-> ty, text |-> t, selector |-> s, page_url |-> u]

\* ------------------------------------------------------------ crawler.py
\* A fetched document is a record [nodes, anchors]: its tags other than <a>,
\* in document order, and the hrefs of its <a> tags, in order, each resolved
\* by urljoin.  A node is a record [tag, type, role, selector, text]: the tag
\* name, the type and role attributes ("" when absent), and what get_selector
\* and get_text return for it; the texts of the model are shorter than 30
\* characters.  No node carries onclick, aria-haspopup, aria-expanded or a
\* filter class, and none lies inside a role="search" container.  NoHtml is
\* the empty string a failed fetch returns.
NoHtml == [nodes |-> <<>>, anchors |-> <<>>, empty |-> TRUE]
MkHtml(c, a) == [nodes |-> c, anchors |-> a, empty |-> FALSE]
MkNode(tag, type, role, selector, text) ==
  [tag |-> tag, type |-> type, role |-> role, selector |-> selector, text |-> text]

\* The candidates of extract_elements_from_html, in the order of its passes:
\* each is the ElementType the pass gives and the node.  The LINKS pass is
\* left out: the <a> tags of the model's documents have no text, no
\* aria-label and no title, so add_element drops them.
Candidates(nodes) ==
  LET Pass(TypeOf(_), Test(_)) ==
        [i \in 1 .. Len(SelectSeq(nodes, Test)) |->
           [el_type |-> TypeOf(SelectSeq(nodes, Test)[i]),
            node |-> SelectSeq(nodes, Test)[i]]]
      Role(role, el_type) == Pass(LAMBDA n : el_type, LAMBDA n : n.role = role)
  IN Pass(LAMBDA n : "button", LAMBDA n : n.tag = "button")
     \o Pass(LAMBDA n : "button",
             LAMBDA n : n.tag = "input" /\ n.type \in {"submit", "button"})
     \o Pass(LAMBDA n : IF n.type = "search" THEN "search" ELSE "input",
             LAMBDA n : /\ n.tag = "input"
                        /\ n.type \notin {"hidden", "submit", "button", "image"})
     \o Pass(LAMBDA n : "textarea", LAMBDA n : n.tag = "textarea")
     \o Pass(LAMBDA n : "select", LAMBDA n : n.tag = "select")
     \o Pass(LAMBDA n : IF n.type = "checkbox" THEN "checkbox" ELSE "radio",
             LAMBDA n : n.tag = "input" /\ n.type \in {"checkbox", "radio"})
     \o Role("button", "button") \o Role("link", "link") \o Role("menuitem", "menu")
     \o Role("tab", "tab") \o Role("checkbox", "checkbox") \o Role("radio", "radio")
     \o Role("switch", "checkbox") \o Role("searchbox", "search")
     \o Role("combobox", "dropdown") \o Role("listbox", "select")
     \o Pass(LAMBDA n : "form", LAMBDA n : n.tag = "form")

RECURSIVE ExtractElements(_, _, _, _)
\* add_element over the candidates: the in-page dedup on the key
\* selector:text[:30] (seen_selectors), the text a type other than INPUT,
\* TEXTAREA and SEARCH must have, and make_id's numbering, which restarts at
\* el_0001 on every call.
ExtractElements(cands, seen, acc, page_url) ==
  IF cands = <<>> THEN acc
  ELSE LET c == Head(cands)
           key == <<c.node.selector, c.node.text>>
       IN IF key \in seen
          THEN ExtractElements(Tail(cands), seen, acc, page_url)
          ELSE ExtractElements(Tail(cands), seen \cup {key},
                 IF c.node.text = "" /\ c.el_type \notin {"input", "textarea", "search"}
                 THEN acc
                 ELSE Append(acc, MkElement(<<"el", Len(acc) + 1>>, c.el_type,
                                            c.node.text, c.node.selector, page_url)),
                 page_url)

extract_elements_from_html(html, page_url) ==
  IF html.empty THEN <<>>
  ELSE ExtractElements(Candidates(html.nodes), {}, <<>>, page_url)

\* An href that urljoin has resolved: a URL followed, or not, by a query
\* string and by a fragment.
Href(u, query, frag) ==
  [dom |-> u.dom, path |-> u.path, slash |-> u.slash, ext |-> u.ext,
   query |-> query, frag |-> frag]

\* As is_static_asset, without re.I.
is_static_asset_exact(full_url) ==
  full_url.ext \in {<<"j", "p", "g">>, <<"j", "p", "e", "g">>, <<"p", "n", "g">>,
                    <<"g", "i", "f">>, <<"c", "s", "s">>, <<"j", "s">>,
                    <<"p", "d", "f">>, <<"z", "i", "p">>}

\* re.search(r'\.(jpg|jpeg|png|gif|css|js|pdf|zip)$', full_url, re.I)
is_static_asset(full_url) ==
  Lower(full_url.ext) \in {<<"j", "p", "g">>, <<"j", "p", "e", "g">>, <<"p", "n", "g">>,
                           <<"g", "i", "f">>, <<"c", "s", "s">>, <<"j", "s">>,
                           <<"p", "d", "f">>, <<"z", "i", "p">>}

\* The loop of extract_internal_links: cut the fragment and the query string
\* off, strip the trailing "/", skip a URL already seen (the full_url of an
\* earlier <a>), keep it when it is on base_url's site and does not end in a
\* static-asset extension.
CollectLinks(anchors, base_url) ==
  LET full_url(i) == [dom |-> anchors[i].dom, path |-> anchors[i].path,
                      slash |-> FALSE, ext |-> anchors[i].ext]
      Kept(i) ==
        /\ \A j \in 1 .. (i - 1) : full_url(j) # full_url(i)
        /\ same_site(base_url, full_url(i))
        /\ ~is_static_asset(full_url(i))
      links == SelectSeq([i \in 1 .. Len(anchors) |-> i], Kept)
  IN [k \in 1 .. Len(links) |-> full_url(links[k])]

extract_internal_links(html, base_url) ==
  IF html.empty THEN <<>>
  ELSE Take(CollectLinks(html.anchors, base_url), MaxLinks)

\* ------------------------------------------------------------ the loops
RECURSIVE AddElements(_, _)
\* for el in elements: site_map.add_element(el)
AddElements(sm, els) ==
  IF els = <<>> THEN sm
  ELSE AddElements(add_element(sm, Head(els)), Tail(els))

RECURSIVE AddLlmElements(_, _, _)
\* for el_data in llm_resp.get("elements", []): the id is read from the
\* counter at the moment the element is built.
AddLlmElements(sm, el_data, page_url) ==
  IF el_data = <<>> THEN sm
  ELSE AddLlmElements(
         add_element(sm, MkElement(<<"llm", sm.elements_discovered + 1>>,
                                   "other", Head(el_data).text,
                                   Head(el_data).selector_hint, page_url)),
         Tail(el_data), page_url)

\* As EnqueueLinks, without the two membership tests.
EnqueueLinks_untested(queue, visited, links) == queue \o links

RECURSIVE EnqueueLinks(_, _, _)
\* for link in links: if link not in visited and link not in to_visit:
\*     to_visit.append(link)
EnqueueLinks(queue, visited, links) ==
  IF links = <<>> THEN queue
  ELSE EnqueueLinks(
         IF Head(links) \notin visited /\ Head(links) \notin Range(queue)
         THEN Append(queue, Head(links)) ELSE queue,
         visited, Tail(links))

RECURSIVE EnqueueLlmLinks(_, _, _, _)
\* for link_data in llm_resp.get("links_to_visit", []): the same test, then
\* get_domain(link_url) == domain.
EnqueueLlmLinks(queue, visited, links, domain) ==
  IF links = <<>> THEN queue
  ELSE EnqueueLlmLinks(
         IF /\ Head(links) \notin visited
            /\ Head(links) \notin Range(queue)
            /\ get_domain(Head(links)) = domain
         THEN Append(queue, Head(links)) ELSE queue,
         visited, Tail(links), domain)

HtmlLinksAll(html, base_url) == extract_internal_links(html, base_url)

\* new_links[:5] / links[:5]
HtmlLinks(html, base_url) == Take(extract_internal_links(html, base_url), LinkCap)


\* ------------------------------------------------------------ inputs
\* The documents a fetch may return: a page of controls, alone or with two
\* links, or a page of links.
Cands == {MkNode("button", "", "", "#a", t) : t \in Texts}
CandLists ==
  {<<>>} \cup {<<c>> : c \in Cands} \cup {<<c, d>> : c \in Cands, d \in Cands}

\* n consecutive pages of the site from page k on, every second href written
\* with a trailing "/".
Run(k, n) ==
  [i \in 1 .. n |-> Href(MkUrl("site", (k + i - 1) % NumPaths, i % 2 = 0), FALSE, FALSE)]
AnchorLists ==
  {Run(k, n) : k \in Paths, n \in {2, LinkCap + 1}}
  \cup {<<Href(MkUrl("other", 1, FALSE), FALSE, FALSE),
           Href(MkUrl("site", 1, TRUE), FALSE, FALSE), Href(SiteUrl(1), FALSE, FALSE)>>}

Htmls ==
  {MkHtml(c, a) : c \in CandLists, a \in {<<>>, Run(1, 2)}}
  \cup {MkHtml(<<>>, a) : a \in AnchorLists}

\* What llm.generate_json may return: {"error": ...} (or an exception, which
\* the loop swallows the same way), or elements and links_to_visit.
NoResp == [error |-> TRUE, elements |-> <<>>, links |-> <<>>, called |-> FALSE]
LlmError == [error |-> TRUE, elements |-> <<>>, links |-> <<>>, called |-> TRUE]
MkResp(e, l) == [error |-> FALSE, elements |-> e, links |-> l, called |-> TRUE]

LlmElementLists ==
  {<<>>,
   <<[text |-> "t1", selector_hint |-> ""]>>,
   <<[text |-> "t1", selector_hint |-> "#a"]>>,
   <<[text |-> "t1", selector_hint |-> "#a"], [text |-> "t2", selector_hint |-> "#a"]>>}
LlmUrls == {MkUrl("site", 0, TRUE), SiteUrl(2), MkUrl("other", 3, FALSE)}
LlmLinkLists ==
  {<<>>} \cup {<<u>> : u \in LlmUrls} \cup {<<u, v>> : u \in LlmUrls, v \in LlmUrls}

LlmResponses(html) ==
  {LlmError} \cup
  (IF html.nodes # <<>> \/ html.anchors = <<>>
   THEN {MkResp(e, <<>>) : e \in LlmElementLists}
   ELSE {MkResp(<<>>, l) : l \in LlmLinkLists})


\* ============================================================ flow discovery
\* FlowDiscoveryAgent (site_mapper/agents/flow_discovery/agent.py).  A Python
\* str is a sequence of one-character strings, so that lower(), "in", split()
\* and slicing are computed as Python computes them.  A score is an exact
\* fraction [n, d]; Python evaluates the same expressions in binary floating
\* point, which agrees with the fraction except within one rounding error of a
\* threshold.

\* Bound on the site descriptors and URLs handed to one discover() call.
MaxSite == 3

\* ------------------------------------------------------------ str
UpperChar(c) ==
  CASE c = "a" -> "A" [] c = "b" -> "B" [] c = "c" -> "C" [] c = "d" -> "D"
    [] c = "e" -> "E" [] c = "f" -> "F" [] c = "g" -> "G" [] c = "h" -> "H"
    [] c = "i" -> "I" [] c = "j" -> "J" [] c = "k" -> "K" [] c = "l" -> "L"
    [] c = "m" -> "M" [] c = "n" -> "N" [] c = "o" -> "O" [] c = "p" -> "P"
    [] c = "q" -> "Q" [] c = "r" -> "R" [] c = "s" -> "S" [] c = "t" -> "T"
    [] c = "u" -> "U" [] c = "v" -> "V" [] c = "w" -> "W" [] c = "x" -> "X"
    [] c = "y" -> "Y" [] c = "z" -> "Z" [] OTHER -> c

\* t in s
Contains(s, t) ==
  \E i \in 0 .. (Len(s) - Len(t)) : SubSeq(s, i + 1, i + Len(t)) = t

\* s.startswith(t)
StartsWith(s, t) == Len(t) <= Len(s) /\ SubSeq(s, 1, Len(t)) = t

RECURSIVE SplitAcc(_, _, _, _)
SplitAcc(s, seps, cur, acc) ==
  IF s = <<>> THEN Append(acc, cur)
  ELSE IF Head(s) \in seps
       THEN SplitAcc(Tail(s), seps, <<>>, Append(acc, cur))
       ELSE SplitAcc(Tail(s), seps, Append(cur, Head(s)), acc)

\* s.split(c): every separator cuts, empty pieces are kept.
Split(s, c) == SplitAcc(s, {c}, <<>>, <<>>)

\* The pieces between runs of separators: re.split(r'[...]+', s) and
\* s.split() without the empty pieces.
Tokens(s, seps) == SelectSeq(SplitAcc(s, seps, <<>>, <<>>), LAMBDA t : t # <<>>)

\* s.strip(chars); s.strip() strips white space
Strip(s, cs) ==
  LET RECURSIVE LStrip(_)
      LStrip(t) == IF t # <<>> /\ Head(t) \in cs THEN LStrip(Tail(t)) ELSE t
      RECURSIVE RStrip(_)
      RStrip(t) ==
        IF t # <<>> /\ t[Len(t)] \in cs THEN RStrip(SubSeq(t, 1, Len(t) - 1)) ELSE t
  IN LStrip(RStrip(s))

RECURSIVE Join(_, _)
\* sep.join(parts)
Join(parts, sep) ==
  IF parts = <<>> THEN <<>>
  ELSE IF Len(parts) = 1 THEN parts[1]
  ELSE parts[1] \o sep \o Join(Tail(parts), sep)

\* str.title(): a letter is upper-cased after a non-letter and lower-cased
\* after a letter.
Title(s) ==
  [i \in 1 .. Len(s) |->
     IF i = 1 \/ (LowerChar(s[i - 1]) = s[i - 1] /\ UpperChar(s[i - 1]) = s[i - 1])
     THEN UpperChar(s[i]) ELSE LowerChar(s[i])]

\* str.capitalize()
Capitalize(s) ==
  [i \in 1 .. Len(s) |-> IF i = 1 THEN UpperChar(s[i]) ELSE LowerChar(s[i])]

\* elem.split(':')[-1].strip()
TrailingText(s) ==
  LET parts == Split(s, ":") IN Strip(parts[Len(parts)], {" "})

\* ------------------------------------------------------------ class constants
\* Weights in hundredths, the threshold in thousandths.
ELEMENT_WEIGHT == 40
URL_WEIGHT == 20
SEMANTIC_WEIGHT == 30
CONTEXT_WEIGHT == 10
\* The weights of _calculate_confidence when semantic scoring is off.
ELEMENT_WEIGHT_NOSEM == 55
URL_WEIGHT_NOSEM == 35
CONFIDENCE_THRESHOLD == 700
PARTIAL_THRESHOLD == 300

\* ELEMENT_TYPE_WEIGHTS, in dict order, weights in tenths.
ELEMENT_TYPE_WEIGHTS ==
  <<[key |-> <<"s", "e", "a", "r", "c", "h">>, w |-> 20],
    [key |-> <<"b", "u", "t", "t", "o", "n">>, w |-> 15],
    [key |-> <<"f", "o", "r", "m">>, w |-> 14],
    [key |-> <<"i", "n", "p", "u", "t">>, w |-> 12],
    [key |-> <<"l", "i", "n", "k">>, w |-> 10],
    [key |-> <<"d", "r", "o", "p", "d", "o", "w", "n">>, w |-> 13],
    [key |-> <<"c", "h", "e", "c", "k", "b", "o", "x">>, w |-> 11],
    [key |-> <<"s", "e", "l", "e", "c", "t">>, w |-> 13]>>

\* HIGH_VALUE_KEYWORDS, in dict order, weights in tenths.
HIGH_VALUE_KEYWORDS ==
  <<[key |-> <<"c", "a", "r", "t">>, w |-> 20],
    [key |-> <<"c", "h", "e", "c", "k", "o", "u", "t">>, w |-> 20],
    [key |-> <<"b", "u", "y">>, w |-> 18],
    [key |-> <<"p", "u", "r", "c", "h", "a", "s", "e">>, w |-> 18],
    [key |-> <<"l", "o", "g", "i", "n">>, w |-> 18],
    [key |-> <<"s", "i", "g", "n", "i", "n">>, w |-> 18],
    [key |-> <<"s", "i", "g", "n", "u", "p">>, w |-> 18],
    [key |-> <<"r", "e", "g", "i", "s", "t", "e", "r">>, w |-> 17],
    [key |-> <<"s", "e", "a", "r", "c", "h">>, w |-> 18],
    [key |-> <<"f", "i", "l", "t", "e", "r">>, w |-> 15],
    [key |-> <<"s", "o", "r", "t">>, w |-> 14],
    [key |-> <<"b", "o", "o", "k">>, w |-> 17],
    [key |-> <<"r", "e", "s", "e", "r", "v", "e">>, w |-> 17],
    [key |-> <<"s", "c", "h", "e", "d", "u", "l", "e">>, w |-> 15],
    [key |-> <<"s", "u", "b", "m", "i", "t">>, w |-> 15],
    [key |-> <<"s", "a", "v", "e">>, w |-> 13],
    [key |-> <<"a", "d", "d">>, w |-> 13],
    [key |-> <<"p", "r", "o", "f", "i", "l", "e">>, w |-> 14],
    [key |-> <<"s", "e", "t", "t", "i", "n", "g", "s">>, w |-> 14],
    [key |-> <<"a", "c", "c", "o", "u", "n", "t">>, w |-> 14]>>

\* action_map of _build_flow_steps, in dict order.
action_map ==
  <<[key |-> <<"s", "e", "a", "r", "c", "h">>, act |-> <<"s", "e", "a", "r", "c", "h">>],
    [key |-> <<"l", "o", "g", "i", "n">>, act |-> <<"c", "l", "i", "c", "k">>],
    [key |-> <<"s", "i", "g", "n", " ", "i", "n">>, act |-> <<"c", "l", "i", "c", "k">>],
    [key |-> <<"r", "e", "g", "i", "s", "t", "e", "r">>, act |-> <<"c", "l", "i", "c", "k">>],
    [key |-> <<"a", "d", "d", " ", "t", "o", " ", "c", "a", "r", "t">>, act |-> <<"c", "l", "i", "c", "k">>],
    [key |-> <<"b", "u", "y">>, act |-> <<"c", "l", "i", "c", "k">>],
    [key |-> <<"c", "h", "e", "c", "k", "o", "u", "t">>, act |-> <<"c", "l", "i", "c", "k">>],
    [key |-> <<"f", "i", "l", "t", "e", "r">>, act |-> <<"s", "e", "l", "e", "c", "t">>],
    [key |-> <<"s", "o", "r", "t">>, act |-> <<"s", "e", "l", "e", "c", "t">>],
    [key |-> <<"i", "n", "p", "u", "t">>, act |-> <<"f", "i", "l", "l">>],
    [key |-> <<"f", "o", "r", "m">>, act |-> <<"f", "i", "l", "l">>],
    [key |-> <<"s", "u", "b", "m", "i", "t">>, act |-> <<"c", "l", "i", "c", "k">>],
    [key |-> <<"b", "o", "o", "k">>, act |-> <<"c", "l", "i", "c", "k">>],
    [key |-> <<"r", "e", "s", "e", "r", "v", "e">>, act |-> <<"c", "l", "i", "c", "k">>]>>

\* The first entry of an ordered table whose key occurs in s, 0 if none:
\* "for key, v in table.items(): if key in s: ...; break".
FirstKeyIn(table, s) ==
  LET RECURSIVE From(_)
      From(i) ==
        IF i > Len(table) THEN 0
        ELSE IF Contains(s, table[i].key) THEN i
        ELSE From(i + 1)
  IN From(1)

RECURSIVE SumSeq(_)
SumSeq(s) == IF s = <<>> THEN 0 ELSE Head(s) + SumSeq(Tail(s))

Max(a, b) == IF a >= b THEN a ELSE b

RECURSIVE MaxSeq(_)
MaxSeq(s) == IF s = <<>> THEN 0 ELSE Max(Head(s), MaxSeq(Tail(s)))

\* ------------------------------------------------------------ patterns
\* A pattern entry of the catalog: a JSON object whose keys are those in has.
\* pattern.get(k, default) and pattern[k]:
Get(pattern, k, default) ==
  IF k \in pattern.has THEN pattern[k] ELSE default

\* _get_all_patterns: the core patterns, then the approved learned ones, as
\* an insertion-ordered dict (a learned id equal to a core id replaces the
\* value in place).
DictPut(dict, id, pattern) ==
  IF \E i \in 1 .. Len(dict) : dict[i].id = id
  THEN [i \in 1 .. Len(dict) |->
          IF dict[i].id = id THEN [id |-> id, pattern |-> pattern] ELSE dict[i]]
  ELSE Append(dict, [id |-> id, pattern |-> pattern])

RECURSIVE DictUpdate(_, _)
DictUpdate(dict, items) ==
  IF items = <<>> THEN dict
  ELSE DictUpdate(DictPut(dict, Head(items).id, Head(items).pattern), Tail(items))

get_all_patterns_unfiltered(patterns) ==
  DictUpdate(patterns.core_patterns, patterns.learned_patterns)

get_all_patterns(patterns) ==
  DictUpdate(patterns.core_patterns,
             SelectSeq(patterns.learned_patterns,
                       LAMBDA it : Get(it.pattern, "approved", FALSE)))

\* ------------------------------------------------------------ scoring
\* _extract_element_info: the weight of a site descriptor, in hundredths.
ElementWeight(element_str) ==
  LET IsType(element_lower, etype) ==
        \/ StartsWith(element_lower, etype \o <<":">>)
        \/ Contains(element_lower, <<"[">> \o etype \o <<"]">>)
      RECURSIVE TypeFrom(_, _)
      TypeFrom(element_lower, i) ==
        IF i > Len(ELEMENT_TYPE_WEIGHTS) THEN 0
        ELSE IF IsType(element_lower, ELEMENT_TYPE_WEIGHTS[i].key) THEN i
        ELSE TypeFrom(element_lower, i + 1)
      Weight(t, k) ==
        (IF t = 0 THEN 10 ELSE ELEMENT_TYPE_WEIGHTS[t].w)
        * (IF k = 0 THEN 10 ELSE HIGH_VALUE_KEYWORDS[k].w)
      Of(element_lower) ==
        Weight(TypeFrom(element_lower, 1), FirstKeyIn(HIGH_VALUE_KEYWORDS, element_lower))
  IN Of(Lower(element_str))

\* calculate_element_score, as the fraction n / d; the weights of the phrases
\* and the match scores are in thousandths.
calculate_element_score(site_elements, pattern_elements) ==
  LET \* re.split(r'[\[\]=\s\-_\(\)\.\,\:]+', pattern_lower), pieces of 3 or more
      Keywords(pattern_lower) ==
        SelectSeq(Tokens(pattern_lower, {"[", "]", "=", " ", "-", "_", "(", ")", ".", ",", ":"}),
                  LAMBDA kw : Len(kw) >= 3)
      Weight(k) == IF k = 0 THEN 1000 ELSE 100 * HIGH_VALUE_KEYWORDS[k].w
      BaseWeight(pattern_lower) == Weight(FirstKeyIn(HIGH_VALUE_KEYWORDS, pattern_lower))
      Match(pattern_lower, elem_lower, elem_weight, keywords) ==
        IF Contains(elem_lower, pattern_lower) THEN 10 * elem_weight
        ELSE IF \E i \in 1 .. Len(keywords) : Contains(elem_lower, keywords[i])
             THEN 7 * elem_weight
        ELSE IF \E i \in 1 .. Len(keywords) :
                  Len(keywords[i]) >= 4 /\ Contains(elem_lower, SubSeq(keywords[i], 1, 4))
             THEN 3 * elem_weight
        ELSE 0
      MatchScore(pattern_lower, site_elem) ==
        Match(pattern_lower, Lower(site_elem), ElementWeight(site_elem),
              Keywords(pattern_lower))
      BestMatchScore(pattern_lower) ==
        MaxSeq([i \in 1 .. Len(site_elements) |-> MatchScore(pattern_lower, site_elements[i])])
      Matched(pattern_lower) == Min(BaseWeight(pattern_lower), BestMatchScore(pattern_lower))
      Ratio(total_weight, matched_weight) ==
        [n |-> Min(total_weight, matched_weight), d |-> total_weight]
  IN IF pattern_elements = <<>> THEN [n |-> 0, d |-> 1]
     ELSE Ratio(SumSeq([i \in 1 .. Len(pattern_elements) |->
                          BaseWeight(Lower(pattern_elements[i]))]),
                SumSeq([i \in 1 .. Len(pattern_elements) |->
                          Matched(Lower(pattern_elements[i]))]))

\* What one pattern URL earns, in tenths: the site URLs are tried in order and
\* the first one giving any credit decides ("break").
UrlMatch(pattern_lower, site_urls) ==
  LET UrlCredit(url_lower) ==
        LET pattern_parts == Split(Strip(pattern_lower, {"/"}), "/")
            url_parts == Split(url_lower, "/")
        IN IF Contains(url_lower, pattern_lower) THEN 10
           ELSE IF \E i \in 1 .. Len(pattern_parts) :
                     pattern_parts[i] # <<>> /\ pattern_parts[i] \in Range(url_parts)
                THEN 7
           ELSE IF StartsWith(pattern_lower, <<"?">>) /\ Contains(url_lower, pattern_lower)
                THEN 8
           ELSE 0
      credits == [i \in 1 .. Len(site_urls) |-> UrlCredit(Lower(site_urls[i]))]
      hits == SelectSeq(credits, LAMBDA c : c > 0)
  IN IF hits = <<>> THEN 0 ELSE Head(hits)

\* calculate_url_score, as the fraction n / d.
calculate_url_score(site_urls, pattern_urls) ==
  IF pattern_urls = <<>> THEN [n |-> 0, d |-> 1]
  ELSE LET matches ==
             SumSeq([i \in 1 .. Len(pattern_urls) |->
                       UrlMatch(Lower(pattern_urls[i]), site_urls)])
       IN [n |-> Min(10 * Len(pattern_urls), matches), d |-> 10 * Len(pattern_urls)]

\* _calculate_semantic_score, in hundredths.  similarity is the rescaled
\* cosine similarity the embedding model yields for the two texts; an
\* exception inside gives 0.
SemanticText(site_elements) ==
  Join([i \in 1 .. Min(50, Len(site_elements)) |->
          IF ":" \in Range(site_elements[i])
          THEN TrailingText(site_elements[i]) ELSE site_elements[i]],
       <<" ">>)

\* As _calculate_semantic_score, without the test for an empty site text.
calculate_semantic_score_noguard(ag, similarity, site_elements, pattern_id) ==
  IF ~ag.use_semantic \/ pattern_id \notin ag.pattern_embeddings THEN 0
  ELSE Max(0, Min(100, similarity))

calculate_semantic_score(ag, similarity, site_elements, pattern_id) ==
  IF ~ag.use_semantic \/ pattern_id \notin ag.pattern_embeddings THEN 0
  ELSE IF Strip(SemanticText(site_elements), {" "}) = <<>> THEN 0
  ELSE Max(0, Min(100, similarity))

\* _calculate_context_bonus, in hundredths.
calculate_context_bonus(site_elements, pattern) ==
  LET pattern_elements == Get(pattern, "elements", <<>>)
      site_text == Lower(Join(site_elements, <<" ">>))
      found_count ==
        Cardinality({i \in 1 .. Len(pattern_elements) :
                       Contains(site_text, Lower(pattern_elements[i]))})
  IN IF Len(pattern_elements) < 2 THEN 0
     ELSE IF found_count >= 3 THEN 30
     ELSE IF found_count >= 2 THEN 15
     ELSE 0

\* As _calculate_confidence, but the semantic weight is added on top of the
\* redistributed weights.
calculate_confidence_double(use_semantic, element_score, url_score, semantic_score, context_bonus) ==
  LET D == element_score.d * url_score.d
  IN [n |-> ELEMENT_WEIGHT_NOSEM * 10 * element_score.n * url_score.d
            + URL_WEIGHT_NOSEM * 10 * url_score.n * element_score.d
            + ((SEMANTIC_WEIGHT * semantic_score + CONTEXT_WEIGHT * context_bonus) * D) \div 10,
      D |-> D]

\* As _calculate_confidence, but with the semantic-mode weights in both modes.
calculate_confidence_flat(use_semantic, element_score, url_score, semantic_score, context_bonus) ==
  LET D == element_score.d * url_score.d
  IN [n |-> ELEMENT_WEIGHT * 10 * element_score.n * url_score.d
            + URL_WEIGHT * 10 * url_score.n * element_score.d
            + ((SEMANTIC_WEIGHT * semantic_score + CONTEXT_WEIGHT * context_bonus) * D) \div 10,
      D |-> D]

\* _calculate_confidence: the value n / (1000 * D).
calculate_confidence(use_semantic, element_score, url_score, semantic_score, context_bonus) ==
  LET D == element_score.d * url_score.d
  IN IF use_semantic
     THEN [n |-> ELEMENT_WEIGHT * 10 * element_score.n * url_score.d
                 + URL_WEIGHT * 10 * url_score.n * element_score.d
                 + ((SEMANTIC_WEIGHT * semantic_score + CONTEXT_WEIGHT * context_bonus) * D) \div 10,
           D |-> D]
     ELSE [n |-> ELEMENT_WEIGHT_NOSEM * 10 * element_score.n * url_score.d
                 + URL_WEIGHT_NOSEM * 10 * url_score.n * element_score.d
                 + ((CONTEXT_WEIGHT * context_bonus) * D) \div 10,
           D |-> D]

\* round(n / d).  At an exact tie Python rounds the binary neighbour of the
\* decimal value, up or down; the even neighbour stands for it here.
RoundDiv(n, d) ==
  LET q == n \div d
      r == n % d
  IN IF 2 * r > d \/ (2 * r = d /\ q % 2 = 1) THEN q + 1 ELSE q

\* "Determine flow type"; "skip" is the continue branch.
FlowTypeOf(confidence, include_partial) ==
  IF confidence.n >= CONFIDENCE_THRESHOLD * confidence.D THEN "happy_path"
  ELSE IF confidence.n >= PARTIAL_THRESHOLD * confidence.D /\ include_partial THEN "partial_flow"
  ELSE "skip"

\* "Find matched elements"
MatchedElements(site_elements, pattern) ==
  SelectSeq(site_elements,
    LAMBDA elem :
      LET elem_lower == Lower(elem)
          pes == Get(pattern, "elements", <<>>)
      IN \E i \in 1 .. Len(pes) :
           \/ Contains(elem_lower, Lower(pes[i]))
           \/ \E kw \in Range(Tokens(Lower(pes[i]), {" "})) :
                Len(kw) >= 3 /\ Contains(elem_lower, kw))

\* "Find matched pages"
MatchedPages(site_urls, pattern) ==
  SelectSeq(site_urls,
    LAMBDA url :
      LET pus == Get(pattern, "urls", <<>>)
      IN \E i \in 1 .. Len(pus) : Contains(Lower(url), Lower(pus[i])))

\* _build_flow_steps.  pattern['name'] raises KeyError when the entry has no
\* name and the generic step is needed.
build_flow_steps(pattern, matched_elements) ==
  LET Step(elem, action, text) ==
        [action |-> action, element |-> elem,
         description |-> Capitalize(action) \o <<" ", "o", "n", " ">>
                         \o SubSeq(text, 1, Min(40, Len(text)))]
      Action(k) ==
        IF k = 0 THEN <<"i", "n", "t", "e", "r", "a", "c", "t">> ELSE action_map[k].act
      FlowStep(elem) ==
        Step(elem, Action(FirstKeyIn(action_map, Lower(elem))), TrailingText(elem))
      NavigateStep(name) ==
        [action |-> <<"n", "a", "v", "i", "g", "a", "t", "e">>,
         element |-> <<"p", "a", "g", "e">>,
         description |-> <<"N", "a", "v", "i", "g", "a", "t", "e", " ", "t", "o", " ">>
                         \o name \o <<" ", "s", "e", "c", "t", "i", "o", "n">>]
      Built(shown) ==
        IF shown # <<>>
        THEN [raised |-> FALSE, steps |-> [i \in 1 .. Len(shown) |-> FlowStep(shown[i])]]
        ELSE IF "name" \notin pattern.has THEN [raised |-> TRUE, steps |-> <<>>]
        ELSE [raised |-> FALSE, steps |-> <<NavigateStep(pattern.name)>>]
  IN Built(SubSeq(matched_elements, 1, Min(5, Len(matched_elements))))

\* flows.sort(key=lambda f: f.confidence, reverse=True) without the sort.
SortFlowsNone(flows) == flows

RECURSIVE SortFlows(_)
\* flows.sort(key=lambda f: f.confidence, reverse=True): list.sort is stable,
\* also with reverse=True, so equal confidences keep their order.
SortFlows(flows) ==
  IF flows = <<>> THEN <<>>
  ELSE LET last == flows[Len(flows)]
           rest == SortFlows(SubSeq(flows, 1, Len(flows) - 1))
       IN SelectSeq(rest, LAMBDA f : f.confidence >= last.confidence)
          \o <<last>>
          \o SelectSeq(rest, LAMBDA f : f.confidence < last.confidence)

\* The four signals of one pattern and their combination (discover, lines
\* 471-484).
Scores(ag, item, site_elements, site_urls) ==
  LET Combined(element_score, url_score, semantic_score, context_bonus) ==
        [element_score |-> element_score, url_score |-> url_score,
         semantic_score |-> semantic_score, context_bonus |-> context_bonus,
         confidence |-> calculate_confidence(ag.use_semantic, element_score, url_score,
                                             semantic_score, context_bonus)]
  IN Combined(calculate_element_score(site_elements, Get(item.pattern, "elements", <<>>)),
              calculate_url_score(site_urls, Get(item.pattern, "urls", <<>>)),
              calculate_semantic_score(ag, ag.embedder, site_elements, item.id),
              calculate_context_bonus(site_elements, item.pattern))

\* The body of "for pattern_id, pattern in all_patterns.items()" for one
\* pattern: skip, a flow, or the KeyError of _build_flow_steps.
ScorePattern(ag, item, site_elements, site_urls, include_partial, count) ==
  LET UserFlow(sc, flow_type, matched_elements, matched_pages, steps) ==
        [id |-> [pattern_id |-> item.id, n |-> count],
         name |-> Get(item.pattern, "name",
                      Title([i \in 1 .. Len(item.id) |->
                               IF item.id[i] = "_" THEN " " ELSE item.id[i]])),
         pattern_id |-> item.id,
         flow_type |-> flow_type,
         steps |-> steps,
         elements |-> SubSeq(matched_elements, 1, Min(10, Len(matched_elements))),
         pages |-> SubSeq(matched_pages, 1, Min(5, Len(matched_pages))),
         confidence |-> RoundDiv(sc.confidence.n, 10 * sc.confidence.D),
         evidence |->
           [element_score |-> RoundDiv(100 * sc.element_score.n, sc.element_score.d),
            url_score |-> RoundDiv(100 * sc.url_score.n, sc.url_score.d),
            semantic_score |-> IF ag.use_semantic THEN sc.semantic_score ELSE -1,
            context_bonus |-> sc.context_bonus,
            pattern_source |->
              IF \E i \in 1 .. Len(ag.patterns.core_patterns) :
                   ag.patterns.core_patterns[i].id = item.id
              THEN "core" ELSE "learned"]]
      Outcome(sc, flow_type, matched_elements, built) ==
        IF flow_type = "skip" THEN [kind |-> "skip"]
        ELSE IF built.raised THEN [kind |-> "raise"]
        ELSE [kind |-> "flow",
              flow |-> UserFlow(sc, flow_type, matched_elements,
                                MatchedPages(site_urls, item.pattern), built.steps)]
      Matched(sc, matched_elements) ==
        Outcome(sc, FlowTypeOf(sc.confidence, include_partial), matched_elements,
                build_flow_steps(item.pattern, matched_elements))
  IN Matched(Scores(ag, item, site_elements, site_urls),
             MatchedElements(site_elements, item.pattern))

NoStats ==
  [patterns_checked |-> 0, patterns_matched |-> 0, flows_discovered |-> 0,
   average_confidence |-> 0, semantic_enabled |-> FALSE]

\* discover(): the DiscoveryResult, or the exception that left it.
discover(ag, site_elements, site_urls, include_partial) ==
  LET \* the loop over all_patterns: the flows in iteration order, or raised
      RECURSIVE ScoreAll(_, _)
      Step(r, items, found) ==
        IF r.kind = "raise" THEN [raised |-> TRUE, flows |-> found]
        ELSE ScoreAll(Tail(items),
                      IF r.kind = "flow" THEN Append(found, r.flow) ELSE found)
      ScoreAll(items, found) ==
        IF items = <<>> THEN [raised |-> FALSE, flows |-> found]
        ELSE Step(ScorePattern(ag, Head(items), site_elements, site_urls,
                               include_partial, Len(found)),
                  items, found)
      Result(all_patterns, matched, flows) ==
        [status |-> "ok", flows |-> flows,
         new_patterns_pending |-> ag.pending,
         stats |->
           [patterns_checked |-> Len(all_patterns),
            patterns_matched |-> Len(matched),
            flows_discovered |-> Len(flows),
            average_confidence |->
              IF flows = <<>> THEN 0
              ELSE RoundDiv(SumSeq([i \in 1 .. Len(flows) |-> flows[i].confidence]),
                            Len(flows)),
            semantic_enabled |-> ag.use_semantic]]
      Scored(all_patterns, scored) ==
        IF scored.raised
        THEN [status |-> "raised", flows |-> <<>>, new_patterns_pending |-> <<>>,
              stats |-> NoStats]
        ELSE Result(all_patterns, scored.flows, SortFlows(scored.flows))
      Over(all_patterns) == Scored(all_patterns, ScoreAll(all_patterns, <<>>))
  IN Over(get_all_patterns(ag.patterns))

\* ------------------------------------------------------------ the agent
EmptyCatalog == [core_patterns |-> <<>>, learned_patterns |-> <<>>]

\* self._embedder is None
NoEmbedder == -1

NoAgent ==
  [status |-> "none", patterns |-> EmptyCatalog, pending |-> <<>>,
   use_semantic |-> FALSE, embedder |-> NoEmbedder, pattern_embeddings |-> {}]

\* _load_patterns: only FileNotFoundError is handled; json.load raises
\* JSONDecodeError on a file that does not parse.
load_patterns(file) ==
  IF file.kind = "missing" THEN [raised |-> FALSE, patterns |-> EmptyCatalog]
  ELSE IF file.kind = "corrupt" THEN [raised |-> TRUE, patterns |-> EmptyCatalog]
  ELSE [raised |-> FALSE, patterns |-> file.data]

\* _precompute_pattern_embeddings: one cached embedding per active pattern
\* with elements; entries already cached stay.
precompute_pattern_embeddings(ag) ==
  IF ag.embedder = NoEmbedder THEN ag
  ELSE LET all == get_all_patterns(ag.patterns)
       IN [ag EXCEPT !.pattern_embeddings =
             @ \cup {all[i].id : i \in {j \in 1 .. Len(all) :
                                         Get(all[j].pattern, "elements", <<>>) # <<>>}}]

\* __init__: similarity = NoEmbedder when semantic matching is off or the
\* model cannot be loaded.
NewAgent(file, similarity) ==
  LET loaded == load_patterns(file)
      ag == [status |-> "ok", patterns |-> loaded.patterns, pending |-> <<>>,
             use_semantic |-> similarity # NoEmbedder, embedder |-> similarity,
             pattern_embeddings |-> {}]
  IN IF loaded.raised THEN [NoAgent EXCEPT !.status = "failed"]
     ELSE precompute_pattern_embeddings(ag)

\* As approve_pattern, but the entry is stored as it was handed in.
approve_pattern_unflagged(ag, pattern_id, pattern_data) ==
  LET ag1 == [ag EXCEPT !.patterns.learned_patterns = DictPut(@, pattern_id, pattern_data)]
      ag2 == IF ag1.use_semantic THEN precompute_pattern_embeddings(ag1) ELSE ag1
  IN [ag2 EXCEPT !.pending = SelectSeq(@, LAMBDA p : Get(p, "id", <<>>) # pattern_id)]

\* approve_pattern, the agent after it.
approve_pattern(ag, pattern_id, pattern_data) ==
  LET data == [pattern_data EXCEPT !.approved = TRUE, !.has = @ \cup {"approved"}]
      ag1 == [ag EXCEPT !.patterns.learned_patterns = DictPut(@, pattern_id, data)]
      ag2 == IF ag1.use_semantic THEN precompute_pattern_embeddings(ag1) ELSE ag1
  IN [ag2 EXCEPT !.pending = SelectSeq(@, LAMBDA p : Get(p, "id", <<>>) # pattern_id)]

\* reject_pattern, the agent after it.
reject_pattern(ag, pattern_id) ==
  [ag EXCEPT !.pending = SelectSeq(@, LAMBDA p : Get(p, "id", <<>>) # pattern_id)]

\* ------------------------------------------------------------ flow inputs
SemScores == {0, 50, 100}

MkPattern(has, name, elements, urls, approved) ==
  [has |-> has, name |-> name, elements |-> elements, urls |-> urls,
   approved |-> approved]

\* Catalog entries: three complete ones, one with urls only, one with
\* elements only, one with no key at all.
Pat ==
  [cart |->
     MkPattern({"name", "elements", "urls"}, <<"A", "d", "d", " ", "t", "o", " ", "C", "a", "r", "t">>,
              <<<<"a", "d", "d", " ", "t", "o", " ", "c", "a", "r", "t">>>>,
              <<<<"/", "c", "a", "r", "t">>>>, FALSE),
   book |->
     MkPattern({"name", "elements", "urls"}, <<"B", "o", "o", "k", " ", "a", " ", "T", "a", "b", "l", "e">>,
              <<<<"b", "o", "o", "k">>>>,
              <<<<"/", "b", "o", "o", "k", "/", "t", "a", "b", "l", "e">>>>, FALSE),
   auth |->
     MkPattern({"name", "elements", "urls"}, <<"L", "o", "g", "i", "n">>,
              <<<<"e", "m", "a", "i", "l">>, <<"p", "a", "s", "s", "w", "o", "r", "d">>, <<"s", "i", "g", "n", " ", "i", "n">>>>,
              <<<<"/", "l", "o", "g", "i", "n">>>>, FALSE),
   bare |->
     MkPattern({"urls"}, <<>>,
              <<>>,
              <<<<"/", "c", "a", "r", "t">>>>, FALSE),
   noname |->
     MkPattern({"elements"}, <<>>,
              <<<<"c", "a", "r", "t">>>>,
              <<>>, FALSE),
   empty |-> MkPattern({}, <<>>, <<>>, <<>>, FALSE)]

\* "approved": true / "approved": false in the catalog file
WithApproved(p, flag) == [p EXCEPT !.approved = flag, !.has = @ \cup {"approved"}]

\* The file at patterns_path: absent, not parseable, or a catalog.
FileOf(catalog) == [kind |-> "json", data |-> catalog]
Files ==
  [missing |-> [kind |-> "missing", data |-> EmptyCatalog],
   corrupt |-> [kind |-> "corrupt", data |-> EmptyCatalog],
   main |->
     FileOf([core_patterns |->
               <<[id |-> <<"c", "a", "r", "t">>, pattern |-> Pat.cart],
                 [id |-> <<"b", "o", "o", "k">>, pattern |-> Pat.book]>>,
             learned_patterns |->
               <<[id |-> <<"c", "a", "r", "t", "_", "a", "g", "a", "i", "n">>, pattern |-> WithApproved(Pat.cart, TRUE)],
                 [id |-> <<"l", "o", "g", "i", "n">>, pattern |-> Pat.auth]>>]),
   auth |->
     FileOf([core_patterns |-> <<[id |-> <<"a", "u", "t", "h">>, pattern |-> Pat.auth]>>,
             learned_patterns |->
               <<[id |-> <<"p", "r", "o", "m", "o">>, pattern |-> WithApproved(Pat.book, FALSE)]>>]),
   sparse |->
     FileOf([core_patterns |->
               <<[id |-> <<"b", "a", "r", "e">>, pattern |-> Pat.bare],
                 [id |-> <<"n", "o", "t", "h", "i", "n", "g">>, pattern |-> Pat.empty],
                 [id |-> <<"c", "a", "r", "t", "_", "i", "t", "e", "m", "s">>, pattern |-> Pat.noname]>>,
             learned_patterns |-> <<>>])]
CatalogFiles == {Files[k] : k \in DOMAIN Files}

\* The arguments of approve_pattern and reject_pattern: the id of a learned
\* entry not approved so far, and the id of a core pattern.
ApproveIds == {<<"l", "o", "g", "i", "n">>, <<"p", "r", "o", "m", "o">>, <<"c", "a", "r", "t">>}
ApproveData == {Pat.auth}

\* The pages of a crawled site, each with its URL and its descriptors
\* "type: text (selector)"; discover() is handed up to MaxSite consecutive ones.
SitePages ==
  <<[url |-> <<"h", "t", "t", "p", "s", ":", "/", "/", "x", ".", "c", "o", "m", "/", "c", "a", "r", "t">>,
     elements |-> <<<<"b", "u", "t", "t", "o", "n", ":", " ", "A", "d", "d", " ", "t", "o", " ", "C", "a", "r", "t", " ", "(", "b", "u", "t", "t", "o", "n", ".", "a", "d", "d", "-", "c", "a", "r", "t", ")">>>>],
    [url |-> <<"h", "t", "t", "p", "s", ":", "/", "/", "x", ".", "c", "o", "m", "/", "b", "o", "o", "k", "/", "l", "i", "s", "t">>,
     elements |-> <<<<"l", "i", "n", "k", ":", " ", "S", "o", "r", "t", " ", "b", "o", "o", "k", " ", "l", "i", "s", "t", " ", "(", "a", ".", "s", "o", "r", "t", ")">>>>],
    [url |-> <<"h", "t", "t", "p", "s", ":", "/", "/", "x", ".", "c", "o", "m", "/", "b", "o", "o", "k", "/", "t", "a", "b", "l", "e">>, elements |-> <<>>],
    [url |-> <<"h", "t", "t", "p", "s", ":", "/", "/", "x", ".", "c", "o", "m", "/", "l", "o", "g", "i", "n">>,
     elements |-> <<<<"i", "n", "p", "u", "t", ":", " ", "E", "m", "a", "i", "l", " ", "(", "#", "e", "m", "a", "i", "l", ")">>, <<"i", "n", "p", "u", "t", ":", " ", "P", "a", "s", "s", "w", "o", "r", "d", " ", "(", "#", "p", "w", ")">>,
                    <<"b", "u", "t", "t", "o", "n", ":", " ", "S", "i", "g", "n", " ", "i", "n", " ", "(", ".", "b", "t", "n", ")">>>>]>>

SiteInputs ==
  LET RECURSIVE Concat(_)
      Concat(lists) == IF lists = <<>> THEN <<>> ELSE Head(lists) \o Concat(Tail(lists))
      SiteOf(pages) ==
        [site_elements |-> Concat([i \in 1 .. Len(pages) |-> pages[i].elements]),
         site_urls |-> [i \in 1 .. Len(pages) |-> pages[i].url]]
  IN {SiteOf(SubSeq(SitePages, w[1], w[2])) :
        w \in {v \in (1 .. Len(SitePages)) \X (0 .. Len(SitePages)) :
                 v[2] - v[1] + 1 <= MaxSite}}

\* ------------------------------------------------------------ flattening
\* test_agents.py: f"{e.type.value}: {e.text} ({e.selector})" for the elements
\* with a text, and the page URLs.
Flatten(sm) ==
  LET TextChars(text) == IF text = "t1" THEN <<"A", "d", "d", " ", "t", "o", " ", "C", "a", "r", "t">> ELSE <<"S", "i", "g", "n", " ", "i", "n">>
      SelectorChars(selector) == IF selector = "#a" THEN <<"#", "a">> ELSE <<"#", "b">>
      DigitChars(n) == <<(<<"0", "1", "2", "3", "4", "5", "6", "7", "8", "9">>)[(n % 10) + 1]>>
      PathChars(path) ==
        IF path = 0 THEN <<>>
        ELSE IF path = 1 THEN <<"/", "c", "a", "r", "t">>
        ELSE <<"/", "p">> \o DigitChars(path)
      DomChars(dom) == IF dom = "site" THEN <<"x", ".", "c", "o", "m">> ELSE <<"o", "t", "h", "e", "r", ".", "o", "r", "g">>
      UrlChars(u) ==
        <<"h", "t", "t", "p", "s", ":", "/", "/">> \o DomChars(u.dom) \o PathChars(u.path)
        \o (IF u.ext = <<>> THEN <<>> ELSE <<".">> \o u.ext)
        \o (IF u.slash THEN <<"/">> ELSE <<>>)
      Descriptor(el) ==
        (IF el.type = "button" THEN <<"b", "u", "t", "t", "o", "n">>
         ELSE <<"o", "t", "h", "e", "r">>) \o <<":", " ">> \o TextChars(el.text) \o <<" ", "(">>
        \o SelectorChars(el.selector) \o <<")">>
  IN [site_elements |-> [i \in 1 .. Len(sm.elements) |-> Descriptor(sm.elements[i])],
      site_urls |-> [i \in 1 .. Len(sm.pages) |-> UrlChars(sm.pages[i])]]

\* ------------------------------------------------------------ state
VARIABLES
  variant,        \* which loop runs: "orchestrator", "app"; "client" = none
  max_pages,      \* the page budget
  site_map,       \* the SiteMap object
  visited_urls,   \* visited_urls / visited
  urls_to_visit,  \* urls_to_visit / to_visit, the frontier
  current_url,    \* current_url / current while a page is in flight
  page_num,       \* app.py's page counter
  html,           \* the document of the page just processed
  llm_resp,       \* the LLM's answer for the page just processed
  pc,             \* "loop", "fetch", "sleep", "done"; "client"
  stop_signal,    \* what stop_check() / should_stop() returns now
  was_stopped,    \* the loop left through the stop branch
  error,          \* an exception left the loop
  returned,       \* the coroutine returned site_map to its caller
  fetched,        \* history: the URLs requested from the network, in order
  enqueued,       \* history: the URLs put in the frontier, in order
  polls,          \* history: stop_check() calls in the current iteration
  extracted,      \* what a direct call of a SiteCrawler extractor returned
  agent,          \* the FlowDiscoveryAgent object, its status "none" before
  patterns_file,  \* the catalog file at patterns_path
  result          \* the last discover() outcome and its arguments, while current

vars == <<variant, max_pages, site_map, visited_urls, urls_to_visit, current_url,
          page_num, html, llm_resp, pc, stop_signal, was_stopped, error,
          returned, fetched, enqueued, polls, extracted, agent, patterns_file,
          result>>

\* The variables of the crawl loops and of the SiteMap.
crawl_vars == <<variant, max_pages, site_map, visited_urls, urls_to_visit,
                current_url, page_num, html, llm_resp, pc, stop_signal,
                was_stopped, error, returned, fetched, enqueued, polls,
                extracted>>
\* The variables of the flow discovery agent.
flow_vars == <<agent, patterns_file, result>>

NoUrl == MkUrl("none", 0, FALSE)

\* No extractor has been called directly.
NoExtract == [op |-> "none", links |-> <<>>, elements |-> <<>>]

\* The URLs of q2 that q1 does not hold, in q2's order.
NewlyEnqueued(q1, q2) == SelectSeq(q2, LAMBDA u : u \notin Range(q1))


\* ------------------------------------------------------------ flow discovery, driven
NoResult ==
  [status |-> "none", site_elements |-> <<>>, site_urls |-> <<>>,
   include_partial |-> FALSE, flows |-> <<>>,
   new_patterns_pending |-> <<>>, stats |-> NoStats]

\* The state in which no FlowDiscoveryAgent exists.
NoFlowState ==
  /\ agent = NoAgent
  /\ patterns_file = Files.missing
  /\ result = NoResult

\* ------------------------------------------------------------ loop pieces
PopLast(queue) ==
  [url |-> queue[Len(queue)], rest |-> SubSeq(queue, 1, Len(queue) - 1)]

\* urls_to_visit.pop(0) / to_visit.pop(0)
Pop(queue) == [url |-> Head(queue), rest |-> Tail(queue)]

OrchLoopCondOff == urls_to_visit # <<>> /\ site_map.pages_crawled <= max_pages

\* while urls_to_visit and site_map.pages_crawled < self.max_pages
OrchLoopCond == urls_to_visit # <<>> /\ site_map.pages_crawled < max_pages

AppLoopCondOff == urls_to_visit # <<>> /\ page_num <= max_pages

\* while to_visit and page_num < max_pages
AppLoopCond == urls_to_visit # <<>> /\ page_num < max_pages

\* Lines 98-131: the extracted elements, then the LLM's elements.
OrchElements(sm, url, h, r) ==
  LET sm1 == log(AddElements(log(sm, "Fetched"),
                             extract_elements_from_html(h, url)),
                 "elements")
  IN IF r.error THEN sm1 ELSE AddLlmElements(sm1, r.elements, url)

\* Lines 134-141: the LLM's links_to_visit.
OrchLlmQueue(queue, visited, r) ==
  IF r.error THEN queue
  ELSE EnqueueLlmLinks(queue, visited, r.links, get_domain(StartUrl))

OrchQueueStopAborts(queue, visited, h, r) ==
  IF r.called
  THEN EnqueueLinks(OrchLlmQueue(queue, visited, r), visited, HtmlLinks(h, StartUrl))
  ELSE queue

\* Lines 134-149: the LLM's links, then the first LinkCap HTML links.
OrchQueue(queue, visited, h, r) ==
  EnqueueLinks(OrchLlmQueue(queue, visited, r), visited, HtmlLinks(h, StartUrl))

\* app.py lines 283-285.
AppElements(sm, url, h) == AddElements(sm, extract_elements_from_html(h, url))

\* app.py lines 298-301.
AppQueue(queue, visited, h) == EnqueueLinks(queue, visited, HtmlLinks(h, StartUrl))

\* ------------------------------------------------------------ Init
Init ==
  /\ variant \in {"orchestrator", "app"}
  /\ max_pages \in 1 .. MaxBudget
  /\ site_map = IF variant = "orchestrator" THEN log(NewSiteMap, "Starting")
                ELSE NewSiteMap
  /\ visited_urls = {}
  /\ urls_to_visit = <<StartUrl>>
  /\ current_url = NoUrl
  /\ page_num = 0
  /\ html = NoHtml
  /\ llm_resp = NoResp
  /\ pc = "loop"
  /\ stop_signal = FALSE
  /\ was_stopped = FALSE
  /\ error = FALSE
  /\ returned = FALSE
  /\ fetched = <<>>
  /\ enqueued = <<StartUrl>>
  /\ polls = 0
  /\ extracted = NoExtract
  /\ NoFlowState

\* ------------------------------------------------------------ orchestrator.py
Orch_Exit ==
  /\ variant = "orchestrator" /\ pc = "loop"
  /\ ~OrchLoopCond
  /\ site_map' = log(site_map, "Done")
  /\ pc' = "done"
  /\ returned' = TRUE
  /\ polls' = 0
  /\ UNCHANGED <<flow_vars, extracted, variant, max_pages, visited_urls, urls_to_visit, current_url,
                 page_num, html, llm_resp, stop_signal, was_stopped, error,
                 fetched, enqueued>>

Orch_StopDiscards ==
  /\ variant = "orchestrator" /\ pc = "loop"
  /\ OrchLoopCond
  /\ stop_signal
  /\ site_map' = log(log(NewSiteMap, "Stop requested"), "Done")
  /\ was_stopped' = TRUE
  /\ pc' = "done"
  /\ returned' = TRUE
  /\ polls' = 1
  /\ UNCHANGED <<flow_vars, extracted, variant, max_pages, visited_urls, urls_to_visit, current_url,
                 page_num, html, llm_resp, stop_signal, error, fetched, enqueued>>

Orch_Stop ==
  /\ variant = "orchestrator" /\ pc = "loop"
  /\ OrchLoopCond
  /\ stop_signal
  /\ site_map' = log(log(site_map, "Stop requested"), "Done")
  /\ was_stopped' = TRUE
  /\ pc' = "done"
  /\ returned' = TRUE
  /\ polls' = 1
  /\ UNCHANGED <<flow_vars, extracted, variant, max_pages, visited_urls, urls_to_visit, current_url,
                 page_num, html, llm_resp, stop_signal, error, fetched, enqueued>>

Orch_Pop ==
  /\ variant = "orchestrator" /\ pc = "loop"
  /\ OrchLoopCond
  /\ ~stop_signal
  /\ LET p == Pop(urls_to_visit)
     IN /\ urls_to_visit' = p.rest
        /\ IF p.url \in visited_urls
           THEN /\ pc' = "loop"
                /\ UNCHANGED <<visited_urls, site_map, current_url>>
           ELSE /\ visited_urls' = visited_urls \cup {p.url}
                /\ site_map' = log(add_page(site_map, p.url), "Page")
                /\ current_url' = p.url
                /\ pc' = "fetch"
  /\ polls' = 1
  /\ UNCHANGED <<flow_vars, extracted, variant, max_pages, page_num, html, llm_resp, stop_signal,
                 was_stopped, error, returned, fetched, enqueued>>

\* As Orch_FetchFailed, but the URL goes back to the end of the frontier.
Orch_FetchFailed_Requeue ==
  /\ variant = "orchestrator" /\ pc = "fetch"
  /\ fetched' = Append(fetched, ensure_http(current_url))
  /\ site_map' = log(site_map, "Failed")
  /\ urls_to_visit' = Append(urls_to_visit, current_url)
  /\ current_url' = NoUrl
  /\ pc' = "loop"
  /\ UNCHANGED <<flow_vars, extracted, variant, max_pages, visited_urls, page_num, html,
                 llm_resp, stop_signal, was_stopped, error, returned, enqueued,
                 polls>>

Orch_FetchFailed ==
  /\ variant = "orchestrator" /\ pc = "fetch"
  /\ fetched' = Append(fetched, ensure_http(current_url))
  /\ site_map' = log(site_map, "Failed")
  /\ current_url' = NoUrl
  /\ pc' = "loop"
  /\ UNCHANGED <<flow_vars, extracted, variant, max_pages, visited_urls, urls_to_visit, page_num, html,
                 llm_resp, stop_signal, was_stopped, error, returned, enqueued,
                 polls>>

Orch_Process ==
  /\ variant = "orchestrator" /\ pc = "fetch"
  /\ \E h \in Htmls :
       \E r \in (IF stop_signal THEN {NoResp} ELSE LlmResponses(h)) :
         /\ html' = h
         /\ llm_resp' = r
         /\ site_map' = log(OrchElements(site_map, current_url, h, r), "Total")
         /\ urls_to_visit' = OrchQueue(urls_to_visit, visited_urls, h, r)
  /\ fetched' = Append(fetched, ensure_http(current_url))
  /\ enqueued' = enqueued \o NewlyEnqueued(urls_to_visit, urls_to_visit')
  /\ polls' = polls + 1
  /\ pc' = "sleep"
  /\ UNCHANGED <<flow_vars, extracted, variant, max_pages, visited_urls, current_url, page_num,
                 stop_signal, was_stopped, error, returned>>

\* An exception leaves extract_elements_from_html (line 98) or
\* extract_internal_links (line 146): nothing catches it, asyncio.run
\* re-raises it and map_site_with_stop returns nothing.
Orch_Raise ==
  /\ variant = "orchestrator" /\ pc = "fetch"
  /\ \E h \in Htmls : \E at \in {"elements", "links"} :
       \E r \in (IF stop_signal \/ at = "elements" THEN {NoResp} ELSE LlmResponses(h)) :
         /\ html' = h
         /\ llm_resp' = r
         /\ site_map' = IF at = "elements" THEN log(site_map, "Fetched")
                        ELSE OrchElements(site_map, current_url, h, r)
         /\ urls_to_visit' = IF at = "elements" THEN urls_to_visit
                             ELSE OrchLlmQueue(urls_to_visit, visited_urls, r)
         /\ polls' = IF at = "elements" THEN polls ELSE polls + 1
  /\ fetched' = Append(fetched, ensure_http(current_url))
  /\ enqueued' = enqueued \o NewlyEnqueued(urls_to_visit, urls_to_visit')
  /\ error' = TRUE
  /\ pc' = "done"
  /\ UNCHANGED <<flow_vars, extracted, variant, max_pages, visited_urls, current_url, page_num,
                 stop_signal, was_stopped, returned>>


Orch_Sleep ==
  /\ variant = "orchestrator" /\ pc = "sleep"
  /\ pc' = "loop"
  /\ html' = NoHtml
  /\ llm_resp' = NoResp
  /\ current_url' = NoUrl
  /\ UNCHANGED <<flow_vars, extracted, variant, max_pages, site_map, visited_urls, urls_to_visit,
                 page_num, stop_signal, was_stopped, error, returned, fetched,
                 enqueued, polls>>

\* ------------------------------------------------------------ app.py
App_Exit ==
  /\ variant = "app" /\ pc = "loop"
  /\ ~AppLoopCond
  /\ pc' = "done"
  /\ returned' = TRUE
  /\ polls' = 0
  /\ UNCHANGED <<flow_vars, extracted, variant, max_pages, site_map, visited_urls, urls_to_visit,
                 current_url, page_num, html, llm_resp, stop_signal, was_stopped,
                 error, fetched, enqueued>>

App_Stop ==
  /\ variant = "app" /\ pc = "loop"
  /\ AppLoopCond
  /\ stop_signal
  /\ was_stopped' = TRUE
  /\ pc' = "done"
  /\ returned' = TRUE
  /\ polls' = 1
  /\ UNCHANGED <<flow_vars, extracted, variant, max_pages, site_map, visited_urls, urls_to_visit,
                 current_url, page_num, html, llm_resp, stop_signal, error,
                 fetched, enqueued>>

App_Pop ==
  /\ variant = "app" /\ pc = "loop"
  /\ AppLoopCond
  /\ ~stop_signal
  /\ LET p == Pop(urls_to_visit)
     IN /\ urls_to_visit' = p.rest
        /\ IF p.url \in visited_urls
           THEN /\ pc' = "loop"
                /\ UNCHANGED <<visited_urls, site_map, current_url, page_num>>
           ELSE /\ visited_urls' = visited_urls \cup {p.url}
                /\ page_num' = page_num + 1
                /\ site_map' = add_page(site_map, p.url)
                /\ current_url' = p.url
                /\ pc' = "fetch"
  /\ polls' = 1
  /\ UNCHANGED <<flow_vars, extracted, variant, max_pages, html, llm_resp, stop_signal, was_stopped,
                 error, returned, fetched, enqueued>>

App_FetchFailed ==
  /\ variant = "app" /\ pc = "fetch"
  /\ fetched' = Append(fetched, ensure_http(current_url))
  /\ pc' = "sleep"
  /\ UNCHANGED <<flow_vars, extracted, variant, max_pages, site_map, visited_urls, urls_to_visit,
                 current_url, page_num, html, llm_resp, stop_signal, was_stopped,
                 error, returned, enqueued, polls>>

App_Process ==
  /\ variant = "app" /\ pc = "fetch"
  /\ \E h \in Htmls :
       /\ html' = h
       /\ site_map' = AppElements(site_map, current_url, h)
       /\ urls_to_visit' = AppQueue(urls_to_visit, visited_urls, h)
  /\ fetched' = Append(fetched, ensure_http(current_url))
  /\ enqueued' = enqueued \o NewlyEnqueued(urls_to_visit, urls_to_visit')
  /\ pc' = "sleep"
  /\ UNCHANGED <<flow_vars, extracted, variant, max_pages, visited_urls, current_url, page_num,
                 llm_resp, stop_signal, was_stopped, error, returned, polls>>

\* An exception leaves extract_elements_from_html (line 283) or
\* extract_internal_links (line 298): the except clause of line 323 reports
\* it; st.session_state.site_map still holds the object stored at line 247.
App_Raise ==
  /\ variant = "app" /\ pc = "fetch"
  /\ \E h \in Htmls : \E at \in {"elements", "links"} :
       /\ html' = h
       /\ site_map' = IF at = "elements" THEN site_map
                      ELSE AppElements(site_map, current_url, h)
  /\ fetched' = Append(fetched, ensure_http(current_url))
  /\ error' = TRUE
  /\ pc' = "done"
  /\ UNCHANGED <<flow_vars, extracted, variant, max_pages, visited_urls, urls_to_visit, current_url,
                 page_num, llm_resp, stop_signal, was_stopped, returned,
                 enqueued, polls>>

App_Sleep ==
  /\ variant = "app" /\ pc = "sleep"
  /\ pc' = "loop"
  /\ html' = NoHtml
  /\ current_url' = NoUrl
  /\ UNCHANGED <<flow_vars, extracted, variant, max_pages, site_map, visited_urls, urls_to_visit,
                 page_num, llm_resp, stop_signal, was_stopped, error, returned,
                 fetched, enqueued, polls>>

\* The stop button (request_stop) or whatever makes stop_check() true.
RequestStop ==
  /\ pc \in {"loop", "fetch", "sleep"}
  /\ ~stop_signal
  /\ stop_signal' = TRUE
  /\ UNCHANGED <<flow_vars, extracted, variant, max_pages, site_map, visited_urls, urls_to_visit,
                 current_url, page_num, html, llm_resp, pc, was_stopped, error,
                 returned, fetched, enqueued, polls>>

Next ==
  \/ Orch_Exit \/ Orch_Stop \/ Orch_Pop \/ Orch_FetchFailed \/ Orch_Process
  \/ Orch_Raise \/ Orch_Sleep
  \/ App_Exit \/ App_Stop \/ App_Pop \/ App_FetchFailed \/ App_Process
  \/ App_Raise \/ App_Sleep
  \/ RequestStop

Spec == Init /\ [][Next]_vars

\* The steps of the coroutine itself.  The event loop resumes a coroutine
\* that can run, and every awaited fetch_page and sleep returns.
LoopStep ==
  \/ Orch_Exit \/ Orch_Stop \/ Orch_Pop \/ Orch_FetchFailed \/ Orch_Process
  \/ Orch_Raise \/ Orch_Sleep
  \/ App_Exit \/ App_Stop \/ App_Pop \/ App_FetchFailed \/ App_Process
  \/ App_Raise \/ App_Sleep

SpecLive == Init /\ [][Next]_vars /\ WF_vars(LoopStep)

\* ------------------------------------------------------------ SiteMap alone
\* A caller that drives one SiteMap directly.
ClientUrls == {SiteUrl(1), MkUrl("site", 1, TRUE)}
ClientElements ==
  [id : {<<"el", 1>>, <<"llm", 1>>}, type : {"button"}, text : Texts,
   selector : Selectors, page_url : {SiteUrl(0), SiteUrl(1)}]

InitSiteMap ==
  /\ variant = "client"
  /\ max_pages = 1
  /\ site_map = NewSiteMap
  /\ visited_urls = {}
  /\ urls_to_visit = <<>>
  /\ current_url = NoUrl
  /\ page_num = 0
  /\ html = NoHtml
  /\ llm_resp = NoResp
  /\ pc = "client"
  /\ stop_signal = FALSE
  /\ was_stopped = FALSE
  /\ error = FALSE
  /\ returned = FALSE
  /\ fetched = <<>>
  /\ enqueued = <<>>
  /\ polls = 0
  /\ extracted = NoExtract
  /\ NoFlowState

Call_add_element ==
  /\ pc = "client"
  /\ \E e \in ClientElements : site_map' = add_element(site_map, e)
  /\ UNCHANGED <<flow_vars, extracted, variant, max_pages, visited_urls, urls_to_visit, current_url,
                 page_num, html, llm_resp, pc, stop_signal, was_stopped, error,
                 returned, fetched, enqueued, polls>>

Call_add_page ==
  /\ pc = "client"
  /\ \E u \in ClientUrls : site_map' = add_page(site_map, u)
  /\ UNCHANGED <<flow_vars, extracted, variant, max_pages, visited_urls, urls_to_visit, current_url,
                 page_num, html, llm_resp, pc, stop_signal, was_stopped, error,
                 returned, fetched, enqueued, polls>>

Call_log ==
  /\ pc = "client"
  /\ Len(site_map.exploration_log) < MaxLog
  /\ site_map' = log(site_map, "msg")
  /\ UNCHANGED <<flow_vars, extracted, variant, max_pages, visited_urls, urls_to_visit, current_url,
                 page_num, html, llm_resp, pc, stop_signal, was_stopped, error,
                 returned, fetched, enqueued, polls>>

NextSiteMap == Call_add_element \/ Call_add_page \/ Call_log

\* Every use of a SiteMap: driven directly, or by one of the two loops.
SpecAll == (Init \/ InitSiteMap) /\ [][Next \/ NextSiteMap]_vars

\* ------------------------------------------------------------ SiteCrawler alone
\* A caller that hands one document to the two extractors of a SiteCrawler.
\* Bounds on the <a> tags and on the other tags of such a document.
MaxAnchors == 3
MaxNodes == 2

\* Hrefs of a document served at https://x.com: the page /about spelled four
\* ways, an image in lower and in upper case, a further page, and a page of
\* another site.
DocHrefs ==
  {Href(SiteUrl(1), FALSE, FALSE), Href(SiteUrl(1), TRUE, FALSE),
   Href(MkUrl("site", 1, TRUE), FALSE, TRUE),
   Href([SiteUrl(2) EXCEPT !.ext = <<"p", "n", "g">>], FALSE, FALSE),
   Href([SiteUrl(2) EXCEPT !.ext = <<"P", "N", "G">>], TRUE, FALSE),
   Href([SiteUrl(3) EXCEPT !.ext = <<"h", "t", "m", "l">>], FALSE, FALSE),
   Href(MkUrl("other", 1, FALSE), FALSE, FALSE)}

\* The tags of a document: buttons with and without a text, native
\* checkboxes and radios, text inputs (one with the selector of a checkbox),
\* a submit input, a search input, and a <div> with an ARIA role.
DocNodes ==
  {MkNode("button", "", "", "#a", "t1"), MkNode("button", "", "", "#b", ""),
   MkNode("input", "checkbox", "", "#c", ""), MkNode("input", "checkbox", "checkbox", "#d", "t1"),
   MkNode("input", "radio", "", "#r", ""), MkNode("input", "", "", "#c", ""),
   MkNode("input", "submit", "", "#s", "t2"), MkNode("input", "search", "", "#q", ""),
   MkNode("div", "", "checkbox", "#e", "t2")}

SeqsUpTo(S, n) == UNION {[1 .. k -> S] : k \in 1 .. n}

\* The documents handed over: a few links, more distinct links than the
\* extractor returns, or a few tags.
Docs ==
  {MkHtml(<<>>, a) : a \in SeqsUpTo(DocHrefs, MaxAnchors)}
  \cup {MkHtml(<<>>, [i \in 1 .. MaxLinks + 1 |-> Href(SiteUrl(i), FALSE, FALSE)])}
  \cup {MkHtml(c, <<>>) : c \in SeqsUpTo(DocNodes, MaxNodes)}

InitCrawler ==
  /\ variant = "crawler"
  /\ max_pages = 1
  /\ site_map = NewSiteMap
  /\ visited_urls = {}
  /\ urls_to_visit = <<>>
  /\ current_url = NoUrl
  /\ page_num = 0
  /\ html \in Docs \cup {NoHtml}
  /\ llm_resp = NoResp
  /\ pc = "client"
  /\ stop_signal = FALSE
  /\ was_stopped = FALSE
  /\ error = FALSE
  /\ returned = FALSE
  /\ fetched = <<>>
  /\ enqueued = <<>>
  /\ polls = 0
  /\ extracted = NoExtract
  /\ NoFlowState

\* crawler.extract_internal_links(html, "https://x.com")
Call_extract_internal_links ==
  /\ variant = "crawler"
  /\ extracted' = [op |-> "links", links |-> extract_internal_links(html, StartUrl),
                   elements |-> <<>>]
  /\ UNCHANGED <<flow_vars, variant, max_pages, site_map, visited_urls,
                 urls_to_visit, current_url, page_num, html, llm_resp, pc,
                 stop_signal, was_stopped, error, returned, fetched, enqueued,
                 polls>>

\* crawler.extract_elements_from_html(html, "https://x.com")
Call_extract_elements_from_html ==
  /\ variant = "crawler"
  /\ extracted' = [op |-> "elements", links |-> <<>>,
                   elements |-> extract_elements_from_html(html, StartUrl)]
  /\ UNCHANGED <<flow_vars, variant, max_pages, site_map, visited_urls,
                 urls_to_visit, current_url, page_num, html, llm_resp, pc,
                 stop_signal, was_stopped, error, returned, fetched, enqueued,
                 polls>>

NextCrawler == Call_extract_internal_links \/ Call_extract_elements_from_html

SpecCrawler == InitCrawler /\ [][NextCrawler]_vars



\* ------------------------------------------------------------ flow discovery, calls
\* A caller that constructs an agent over any catalog file and calls it on
\* hand-written site data (test_agents.py, manual input).
InitFlow ==
  /\ variant = "flow"
  /\ max_pages = 1
  /\ site_map = NewSiteMap
  /\ visited_urls = {}
  /\ urls_to_visit = <<>>
  /\ current_url = NoUrl
  /\ page_num = 0
  /\ html = NoHtml
  /\ llm_resp = NoResp
  /\ pc = "flow"
  /\ stop_signal = FALSE
  /\ was_stopped = FALSE
  /\ error = FALSE
  /\ returned = FALSE
  /\ fetched = <<>>
  /\ enqueued = <<>>
  /\ polls = 0
  /\ extracted = NoExtract
  /\ agent = NoAgent
  /\ patterns_file \in CatalogFiles
  /\ result = NoResult

\* app.py's crawl with an agent over the main catalog at hand, to be called
\* on the Site Map as it grows.
InitFlowCrawl ==
  /\ variant = "app"
  /\ max_pages = 1
  /\ site_map = NewSiteMap
  /\ visited_urls = {}
  /\ urls_to_visit = <<StartUrl>>
  /\ current_url = NoUrl
  /\ page_num = 0
  /\ html = NoHtml
  /\ llm_resp = NoResp
  /\ pc = "loop"
  /\ stop_signal = FALSE
  /\ was_stopped = FALSE
  /\ error = FALSE
  /\ returned = FALSE
  /\ fetched = <<>>
  /\ enqueued = <<StartUrl>>
  /\ polls = 0
  /\ extracted = NoExtract
  /\ agent = NewAgent(Files.main, NoEmbedder)
  /\ patterns_file = Files.main
  /\ result = NoResult

\* FlowDiscoveryAgent(patterns_path, use_semantic=...)
Construct ==
  /\ variant = "flow" /\ agent.status = "none"
  /\ \E similarity \in {NoEmbedder} \cup SemScores :
       agent' = NewAgent(patterns_file, similarity)
  /\ UNCHANGED <<patterns_file, result, crawl_vars>>

\* What discover() is called on: hand-written site data, or the Site Map.
DiscoverInputs ==
  IF variant = "flow" THEN SiteInputs ELSE {Flatten(site_map)}

\* The hand-driven caller repeats a call only with the arguments it used
\* last; it calls with other arguments once approve/reject made it drop the
\* result.  The crawl's caller calls at any time.
CallAllowed(site, include_partial) ==
  \/ variant # "flow"
  \/ result.status = "none"
  \/ /\ site.site_elements = result.site_elements
     /\ site.site_urls = result.site_urls
     /\ include_partial = result.include_partial

\* As Discover, but discover() fills the embedding cache as it goes.
Discover_Caches ==
  /\ agent.status = "ok"
  /\ \E site \in DiscoverInputs : \E include_partial \in BOOLEAN :
       /\ CallAllowed(site, include_partial)
       /\ result' = discover(agent, site.site_elements, site.site_urls, include_partial)
                    @@ [site_elements |-> site.site_elements,
                        site_urls |-> site.site_urls,
                        include_partial |-> include_partial]
  /\ agent' = [agent EXCEPT !.pattern_embeddings =
                 {get_all_patterns(agent.patterns)[i].id :
                    i \in 1 .. Len(get_all_patterns(agent.patterns))}]
  /\ UNCHANGED <<patterns_file, crawl_vars>>

\* agent.discover(site_elements, site_urls, include_partial)
Discover ==
  /\ agent.status = "ok"
  /\ \E site \in DiscoverInputs : \E include_partial \in BOOLEAN :
       /\ CallAllowed(site, include_partial)
       /\ result' = discover(agent, site.site_elements, site.site_urls, include_partial)
                    @@ [site_elements |-> site.site_elements,
                        site_urls |-> site.site_urls,
                        include_partial |-> include_partial]
  /\ UNCHANGED <<agent, patterns_file, crawl_vars>>

\* agent.approve_pattern(pattern_id, pattern_data); _save_patterns rewrites
\* the file.  The caller drops the result it held for the old catalog.
Approve ==
  /\ variant = "flow" /\ agent.status = "ok"
  /\ \E pattern_id \in ApproveIds : \E pattern_data \in ApproveData :
       agent' = approve_pattern(agent, pattern_id, pattern_data)
  /\ patterns_file' = FileOf(agent'.patterns)
  /\ result' = NoResult
  /\ UNCHANGED crawl_vars

\* agent.reject_pattern(pattern_id)
Reject ==
  /\ variant = "flow" /\ agent.status = "ok"
  /\ \E pattern_id \in ApproveIds : agent' = reject_pattern(agent, pattern_id)
  /\ result' = NoResult
  /\ UNCHANGED <<patterns_file, crawl_vars>>

NextFlow ==
  \/ Construct \/ Discover \/ Approve \/ Reject
  \/ App_Exit \/ App_Stop \/ App_Pop \/ App_FetchFailed \/ App_Process
  \/ App_Raise \/ App_Sleep \/ RequestStop

SpecFlow == (InitFlow \/ InitFlowCrawl) /\ [][NextFlow]_vars


\* ------------------------------------------------------------ what the caller sees
\* map_site_with_stop hands over site_map only by returning it; app.py
\* stored the object in st.session_state.site_map before the loop began.
CallerHasSiteMap == variant = "app" \/ returned

\* app.py reports "Stopped" when was_stopped is set, an error when the
\* except clause ran, "Complete" otherwise.
Status ==
  IF error THEN "FAILED"
  ELSE IF was_stopped THEN "STOPPED"
  ELSE IF pc = "done" THEN "COMPLETED"
  ELSE "RUNNING"


\* ============================================================ claims
Pages == site_map.pages
Elements == site_map.elements
Crawling == variant \in {"orchestrator", "app"}

\* C1: the elements list never holds two elements with the same
\* (selector, page_url), and add_element with an element whose
\* (selector, page_url) is already present, whatever its id and text, returns
\* the Site Map with elements and elements_discovered unchanged.
C1_DedupInvariant ==
  /\ \A i, j \in 1 .. Len(Elements) :
       (/\ Elements[i].selector = Elements[j].selector
        /\ Elements[i].page_url = Elements[j].page_url) => i = j
  /\ \A e \in ClientElements :
       KeyPresent(site_map, e) =>
         /\ add_element(site_map, e).elements = Elements
         /\ add_element(site_map, e).elements_discovered = site_map.elements_discovered

\* Two pages carry the same selector with the same text and both are kept,
\* while every further add_element for the first page is a duplicate.
C1_Witness ==
  /\ variant = "client"
  /\ \E i, j \in 1 .. Len(Elements) :
       /\ Elements[i].selector = Elements[j].selector
       /\ Elements[i].text = Elements[j].text
       /\ Elements[i].page_url # Elements[j].page_url
  /\ \A e \in ClientElements : e.page_url = SiteUrl(0) => KeyPresent(site_map, e)

\* C2: in every state, of a directly driven SiteMap and of both crawl
\* loops, the counters equal the lengths of the lists.
C2_CounterConsistency ==
  /\ site_map.pages_crawled = Len(Pages)
  /\ site_map.elements_discovered = Len(Elements)

\* A crawl has recorded two pages, at least two elements and log lines.
C2_Witness ==
  /\ variant = "orchestrator"
  /\ Len(Pages) = 2
  /\ Len(Elements) >= 2
  /\ site_map.exploration_log # <<>>

\* C3: every step leaves the old pages list a prefix of the new one and the
\* old elements list a prefix of the new one; pages never holds a URL twice;
\* and in a crawl each visit puts the visited URL at the end of pages.
C3_AppendOnly ==
  /\ [](NoDup(Pages))
  /\ [][/\ IsPrefix(Pages, site_map'.pages)
        /\ IsPrefix(Elements, site_map'.elements)
        /\ (Crawling /\ pc = "loop" /\ pc' = "fetch") =>
             site_map'.pages = Append(Pages, current_url')]_vars

\* The second page of a crawl is in flight, after the first gave elements.
C3_Witness ==
  /\ variant = "app"
  /\ pc = "fetch"
  /\ Len(Pages) = 2
  /\ Len(Elements) >= 1

\* C4: the step that observes the stop signal at loop-top pops nothing,
\* fetches nothing and leaves pages, elements and both counters as they
\* were; the Site Map is handed to the caller as it stands.
C4_StopKeepsData ==
  [][(pc = "loop" /\ ~was_stopped /\ was_stopped') =>
       /\ site_map'.pages = Pages
       /\ site_map'.elements = Elements
       /\ site_map'.pages_crawled = site_map.pages_crawled
       /\ site_map'.elements_discovered = site_map.elements_discovered
       /\ urls_to_visit' = urls_to_visit
       /\ visited_urls' = visited_urls
       /\ fetched' = fetched
       /\ pc' = "done"
       /\ returned']_vars

\* A run stopped after it had gathered a page and an element.
C4_Witness ==
  /\ was_stopped
  /\ variant = "orchestrator"
  /\ site_map.pages_crawled >= 1
  /\ site_map.elements_discovered >= 1
  /\ urls_to_visit # <<>>

\* C5: pages_crawled never exceeds the budget; a run during which no stop
\* signal was raised and no exception left the loop ends COMPLETED, and if
\* the frontier was given at least max_pages distinct URLs in all, it has
\* visited exactly max_pages pages.
C5_Budget ==
  /\ site_map.pages_crawled <= max_pages
  /\ (pc = "done" /\ ~stop_signal /\ ~error) =>
       /\ Status = "COMPLETED"
       /\ returned
       /\ Cardinality(Range(enqueued)) >= max_pages =>
            site_map.pages_crawled = max_pages

\* The loop ended on the budget of 2 with URLs still waiting.
C5_Witness ==
  /\ pc = "done" /\ ~stop_signal /\ ~error
  /\ max_pages = 2
  /\ site_map.pages_crawled = 2
  /\ Len(urls_to_visit) >= 2


\* C6: no URL is requested from the network twice in one run, and no
\* visited URL is in the frontier.
C6_FetchedOnce ==
  /\ NoDup(fetched)
  /\ \A i \in 1 .. Len(urls_to_visit) : urls_to_visit[i] \notin visited_urls

\* C7: the URLs ever enqueued, in the order of their enqueueing, are the
\* pages visited so far followed by the frontier; a pop takes the front of
\* the frontier and every other change of it appends at its back.
C7_Fifo ==
  /\ [](enqueued = Pages \o urls_to_visit)
  /\ [][urls_to_visit' # urls_to_visit =>
          IF pc = "loop"
          THEN /\ urls_to_visit' = Tail(urls_to_visit)
               /\ pc' = "fetch" => current_url' = Head(urls_to_visit)
          ELSE IsPrefix(urls_to_visit, urls_to_visit')]_vars

\* The URL enqueued first after the start URL is in flight while URLs
\* enqueued after it wait.
C7_Witness ==
  /\ pc = "fetch"
  /\ Len(Pages) = 2
  /\ Len(urls_to_visit) >= 2
  /\ current_url = enqueued[2]

\* What one page put in the frontier, given the frontier before and after.
Appended(q1, q2) == SubSeq(q2, Len(q1) + 1, Len(q2))

AllFresh(q1, q2) ==
  /\ IsPrefix(q1, q2)
  /\ NoDup(Appended(q1, q2))
  /\ \A u \in Range(Appended(q1, q2)) : u \notin visited_urls /\ u \notin Range(q1)

\* C8 as stated: processing one page grows the frontier by at most LinkCap
\* URLs, each neither visited nor queued when it was enqueued.
C8_GrowthAtMostCap ==
  [][pc = "fetch" =>
       /\ Len(urls_to_visit') <= Len(urls_to_visit) + LinkCap
       /\ AllFresh(urls_to_visit, urls_to_visit')]_vars

\* C8 amended: processing one page grows the frontier by at most LinkCap
\* URLs plus the number of links the LLM suggested for it (none in app.py),
\* each neither visited nor queued when it was enqueued.
C8_GrowthBound ==
  [][pc = "fetch" =>
       /\ Len(urls_to_visit') <=
            Len(urls_to_visit) + LinkCap + Len(llm_resp'.links)
       /\ variant = "app" => Len(urls_to_visit') <= Len(urls_to_visit) + LinkCap
       /\ AllFresh(urls_to_visit, urls_to_visit')]_vars

\* The start page had more than LinkCap links and the LLM suggested one
\* more: the frontier went from empty to LinkCap + 1.
C8_Witness ==
  /\ pc = "sleep"
  /\ variant = "orchestrator"
  /\ Len(Pages) = 1
  /\ Len(extract_internal_links(html, StartUrl)) > LinkCap
  /\ Len(llm_resp.links) = 1
  /\ Len(urls_to_visit) = LinkCap + 1

\* C9 as stated: stop_check() runs at most once per iteration, and a page
\* in flight is processed as without the signal, LLM analysis included.
C9_PolledOnce ==
  /\ polls <= 1
  /\ (variant = "orchestrator" /\ pc = "sleep") => llm_resp.called

\* C9 amended: stop_check() runs at most twice per iteration, once in
\* app.py; the loop is left through the stop branch only at loop-top; a page
\* in flight is always fetched, its extracted elements are all in the Site
\* Map and its first LinkCap HTML links are all visited or queued afterwards,
\* whatever the signal; the Orchestrator consults the LLM for the page
\* exactly when the signal is not raised at its second poll.
C9_StopPolls ==
  /\ [](polls <= 2 /\ (variant = "app" => polls <= 1))
  /\ [][/\ (~was_stopped /\ was_stopped') => pc = "loop"
        /\ (pc = "fetch" /\ pc' = "sleep") =>
             /\ fetched' = Append(fetched, ensure_http(current_url))
             /\ \A e \in Range(extract_elements_from_html(html', current_url)) :
                  KeyPresent(site_map', e)
             /\ \A u \in Range(HtmlLinks(html', StartUrl)) :
                  u \in visited_urls \/ u \in Range(urls_to_visit')
             /\ variant = "orchestrator" => (llm_resp'.called <=> ~stop_signal)]_vars

\* The signal was raised while a page was in flight: the LLM was skipped,
\* the page's HTML links were enqueued all the same.
C9_Witness ==
  /\ pc = "sleep"
  /\ variant = "orchestrator"
  /\ stop_signal
  /\ polls = 2
  /\ ~llm_resp.called
  /\ html.anchors # <<>>
  /\ Len(urls_to_visit) >= 2

\* C10: after an exception left the fetch/extract cycle the caller still
\* holds the Site Map accumulated so far.
C10_MapSurvivesError == error => CallerHasSiteMap

\* C11: every URL ever placed in the frontier, marked visited or recorded in
\* SiteMap.pages has the start URL's registrable domain, whatever the pages and
\* the LLM link to.
C11_SameDomain ==
  Crawling =>
    \A u \in Range(enqueued) \cup Range(urls_to_visit)
             \cup Range(site_map.pages) \cup visited_urls :
      get_domain(u) = get_domain(StartUrl)

\* An off-domain href and an off-domain LLM suggestion were met on the page
\* just processed, next to an on-domain one that was enqueued.
C11_Witness ==
  /\ variant = "orchestrator" /\ pc = "sleep"
  /\ \E i \in 1 .. Len(html.anchors) : get_domain(html.anchors[i]) = "other"
  /\ \E i \in 1 .. Len(llm_resp.links) : get_domain(llm_resp.links[i]) = "other"
  /\ SiteUrl(2) \in Range(urls_to_visit)

\* ------------------------------------------------------------ flow discovery claims
\* A discover() call has been made on the current catalog, and its arguments.
Called == agent.status = "ok" /\ result.status # "none"
Active == get_all_patterns(agent.patterns)

\* C12: for every active pattern and the arguments of any discover() call, in
\* either semantic mode and for any semantic score, the element score, the URL
\* score and the context bonus lie in [0,1] and so does the confidence, raw
\* and as stored.
C12_ConfidenceBounds ==
  Called =>
    /\ \A i \in 1 .. Len(Active) :
         LET sc == Scores(agent, Active[i], result.site_elements, result.site_urls)
         IN /\ 0 <= sc.element_score.n /\ sc.element_score.n <= sc.element_score.d
            /\ 0 <= sc.url_score.n /\ sc.url_score.n <= sc.url_score.d
            /\ 0 <= sc.semantic_score /\ sc.semantic_score <= 100
            /\ 0 <= sc.context_bonus /\ sc.context_bonus <= 100
            /\ 0 <= sc.confidence.n /\ sc.confidence.n <= 1000 * sc.confidence.D
    /\ \A i \in 1 .. Len(result.flows) :
         0 <= result.flows[i].confidence /\ result.flows[i].confidence <= 100

\* Every signal at its maximum: all three phrases and the URL found, the
\* largest context bonus, semantic scoring on with similarity 1.
C12_Witness ==
  /\ Called /\ agent.use_semantic
  /\ \E i \in 1 .. Len(result.flows) :
       /\ result.flows[i].evidence.element_score = 100
       /\ result.flows[i].evidence.url_score = 100
       /\ result.flows[i].evidence.semantic_score = 100
       /\ result.flows[i].evidence.context_bonus = 30

\* C13: with the confidence as stored in the flow (two decimals), a returned
\* flow is happy_path exactly when confidence >= 0.70 and partial_flow exactly
\* when 0.30 <= confidence < 0.70 and include_partial; nothing below 0.30 is
\* returned, and nothing below 0.70 when include_partial is false.
C13_ClassifiedByStored ==
  Called =>
    \A i \in 1 .. Len(result.flows) :
      LET f == result.flows[i]
      IN /\ f.flow_type = "happy_path" <=> f.confidence >= 70
         /\ f.flow_type = "partial_flow" <=>
              (30 <= f.confidence /\ f.confidence < 70 /\ result.include_partial)
         /\ f.confidence >= 30
         /\ ~result.include_partial => f.confidence >= 70

\* Every phrase of the pattern is an exact substring of some descriptor and
\* every URL fragment a direct substring of some site URL.
ExactMatch(pattern) ==
  /\ Get(pattern, "elements", <<>>) # <<>>
  /\ Get(pattern, "urls", <<>>) # <<>>
  /\ \A i \in 1 .. Len(pattern.elements) :
       \E j \in 1 .. Len(result.site_elements) :
         Contains(Lower(result.site_elements[j]), Lower(pattern.elements[i]))
  /\ \A i \in 1 .. Len(pattern.urls) :
       \E j \in 1 .. Len(result.site_urls) :
         Contains(Lower(result.site_urls[j]), Lower(pattern.urls[i]))

\* C14: a pattern whose phrases and URL fragments are all found verbatim has
\* element score 1.0, URL score >= 0.7, confidence >= 0.70 and is returned as
\* happy_path, semantic scoring on or off.
C14_ExactMatchIsHappyPath ==
  Called =>
    \A i \in 1 .. Len(Active) :
      ExactMatch(Active[i].pattern) =>
        LET sc == Scores(agent, Active[i], result.site_elements, result.site_urls)
        IN /\ sc.element_score.n = sc.element_score.d
           /\ 10 * sc.url_score.n >= 7 * sc.url_score.d
           /\ sc.confidence.n >= CONFIDENCE_THRESHOLD * sc.confidence.D
           /\ \E k \in 1 .. Len(result.flows) :
                /\ result.flows[k].pattern_id = Active[i].id
                /\ result.flows[k].flow_type = "happy_path"

\* C15: discover() on an empty element list and an empty URL list returns no
\* flow, for any catalog and either semantic mode.
C15_EmptySiteNoFlows ==
  (Called /\ result.site_elements = <<>> /\ result.site_urls = <<>>) =>
    /\ result.status = "ok"
    /\ result.flows = <<>>
    /\ result.stats.patterns_matched = 0
    /\ result.stats.flows_discovered = 0

\* The call on the empty site was made on a catalog with patterns whose
\* embeddings are cached, the similarity being 1.
C15_Witness ==
  /\ Called /\ result.site_elements = <<>> /\ result.site_urls = <<>>
  /\ result.stats.patterns_checked >= 3
  /\ agent.use_semantic /\ agent.embedder = 100
  /\ agent.pattern_embeddings # {}

\* C16: the returned flows are in non-increasing order of confidence, and
\* flows of equal confidence are in the library's iteration order, core
\* patterns before learned ones.
C16_SortedStable ==
  (Called /\ result.status = "ok") =>
    \A i, j \in 1 .. Len(result.flows) :
      i < j =>
        /\ result.flows[i].confidence >= result.flows[j].confidence
        /\ result.flows[i].confidence = result.flows[j].confidence =>
             /\ \E a, b \in 1 .. Len(Active) :
                  /\ a < b
                  /\ Active[a].id = result.flows[i].pattern_id
                  /\ Active[b].id = result.flows[j].pattern_id
             /\ ~(/\ result.flows[i].evidence.pattern_source = "learned"
                  /\ result.flows[j].evidence.pattern_source = "core")

\* Three flows: two of equal confidence, and one that was built before the
\* second of them and sorted behind it.
C16_Witness ==
  /\ Called /\ Len(result.flows) >= 3
  /\ \E i \in 1 .. (Len(result.flows) - 1) :
       result.flows[i].confidence = result.flows[i + 1].confidence
  /\ \E i \in 1 .. (Len(result.flows) - 1) :
       /\ result.flows[i].id.n > result.flows[i + 1].id.n
       /\ result.flows[i].confidence > result.flows[i + 1].confidence

ApprovedLearned ==
  {agent.patterns.learned_patterns[i] :
     i \in {j \in 1 .. Len(agent.patterns.learned_patterns) :
              LET p == agent.patterns.learned_patterns[j].pattern
              IN "approved" \in p.has /\ p.approved = TRUE}}

\* C18: after any approve_pattern, reject_pattern and discover calls, what
\* discover() scores is made of the core patterns and the learned patterns
\* whose approved flag is true: every scored entry is one of them, the scored
\* ids and patterns_checked are exactly theirs, and every flow is of one of
\* them, so a learned pattern that was not approved yields no flow and is not
\* counted.
C18_OnlyApprovedScored ==
  (Called /\ result.status = "ok") =>
    LET core == Range(agent.patterns.core_patterns)
        ids == {e.id : e \in core \cup ApprovedLearned}
    IN /\ result.stats.patterns_checked = Cardinality(ids)
       /\ \A i \in 1 .. Len(result.flows) :
            /\ result.flows[i].pattern_id \in ids
            /\ result.flows[i].evidence.pattern_source = "learned" =>
                 result.flows[i].pattern_id \in {e.id : e \in ApprovedLearned}

\* After an approve_pattern, a learned pattern yielded a flow while another,
\* not approved, would clear the threshold on the same arguments.
C18_Witness ==
  /\ Called /\ result.status = "ok"
  /\ \E i \in 1 .. Len(result.flows) :
       result.flows[i].evidence.pattern_source = "learned"
  /\ \E item \in Range(agent.patterns.learned_patterns) \ ApprovedLearned :
       FlowTypeOf(Scores(agent, item, result.site_elements, result.site_urls).confidence,
                  TRUE) # "skip"

\* C19: the agent is constructed over a missing or an unparseable catalog
\* file, with an empty catalog.
C19_ConstructedOnBadFile ==
  (patterns_file.kind \in {"missing", "corrupt"} /\ agent.status # "none") =>
    /\ agent.status = "ok"
    /\ agent.patterns = EmptyCatalog

\* C20: discover() does not raise, whatever optional fields the pattern
\* entries lack and whatever the site data.
C20_DiscoverNeverRaises == result.status # "raised"

\* C21: the confidence of every active pattern is the weighted sum of its four
\* signals with weights 0.40, 0.20, 0.30, 0.10 (element, URL, semantic,
\* context) when semantic scoring is on and 0.55, 0.35, 0, 0.10 when it is
\* off; in both modes the weights sum to 1.
C21_EffectiveWeights ==
  Called =>
    LET w == IF agent.use_semantic
             THEN [element |-> 40, url |-> 20, semantic |-> 30, context |-> 10]
             ELSE [element |-> 55, url |-> 35, semantic |-> 0, context |-> 10]
    IN /\ w.element + w.url + w.semantic + w.context = 100
       /\ w.context = 10
       /\ \A i \in 1 .. Len(Active) :
            LET sc == Scores(agent, Active[i], result.site_elements, result.site_urls)
                D == sc.element_score.d * sc.url_score.d
            IN /\ sc.confidence.D = D
               /\ 10 * sc.confidence.n =
                    100 * w.element * sc.element_score.n * sc.url_score.d
                    + 100 * w.url * sc.url_score.n * sc.element_score.d
                    + (w.semantic * sc.semantic_score + w.context * sc.context_bonus) * D

\* Semantic scoring is off and a flow with both scores at 1.0 and no context
\* bonus has confidence 0.90 = 0.55 + 0.35.
C21_Witness ==
  /\ Called /\ ~agent.use_semantic
  /\ \E i \in 1 .. Len(result.flows) :
       /\ result.flows[i].evidence.element_score = 100
       /\ result.flows[i].evidence.url_score = 100
       /\ result.flows[i].evidence.context_bonus = 0
       /\ result.flows[i].confidence = 90

\* C25: a pattern URL fragment that is a direct substring of some site URL
\* earns the full credit wherever that URL stands in site_urls, and the URL
\* score of a pattern does not change when site_urls is put in another order.
C25_UrlScoreOrderFree ==
  Called =>
    \A i \in 1 .. Len(Active) :
      LET pattern_urls == Get(Active[i].pattern, "urls", <<>>)
          site_urls == result.site_urls
          reversed == [k \in 1 .. Len(site_urls) |-> site_urls[Len(site_urls) + 1 - k]]
      IN /\ calculate_url_score(site_urls, pattern_urls)
              = calculate_url_score(reversed, pattern_urls)
         /\ \A j \in 1 .. Len(pattern_urls) :
              (\E k \in 1 .. Len(site_urls) :
                 Contains(Lower(site_urls[k]), Lower(pattern_urls[j])))
              => UrlMatch(Lower(pattern_urls[j]), site_urls) = 10

C30_CoreNotShadowed ==
  (Called /\ result.status = "ok") =>
    /\ \A e \in Range(agent.patterns.core_patterns) : e \in Range(Active)
    /\ \A k \in 1 .. Len(result.flows) :
         result.flows[k].evidence.pattern_source = "core" =>
           \E e \in Range(agent.patterns.core_patterns) :
             /\ e.id = result.flows[k].pattern_id
             /\ e \in Range(Active)

\* C29: in every state of both crawl loops the frontier holds no URL twice
\* and no URL of the visited set; a loop iteration that pops a URL pops an
\* unvisited one, goes on to fetch it and raises pages_crawled by exactly one.
C29_FrontierClean ==
  /\ [](Crawling =>
          /\ NoDup(urls_to_visit)
          /\ Range(urls_to_visit) \cap visited_urls = {})
  /\ [][(Crawling /\ pc = "loop" /\ urls_to_visit' # urls_to_visit) =>
          /\ Head(urls_to_visit) \notin visited_urls
          /\ urls_to_visit' = Tail(urls_to_visit)
          /\ current_url' = Head(urls_to_visit)
          /\ pc' = "fetch"
          /\ site_map'.pages_crawled = site_map.pages_crawled + 1]_vars

\* A second page has been popped, and the page just processed offered a link
\* that is in the visited set and a link that the frontier holds.
C29_Witness ==
  /\ Crawling /\ pc = "sleep"
  /\ site_map.pages_crawled = 2
  /\ urls_to_visit # <<>>
  /\ \E i, j \in 1 .. Len(HtmlLinks(html, StartUrl)) :
       /\ HtmlLinks(html, StartUrl)[i] \in visited_urls
       /\ HtmlLinks(html, StartUrl)[j] \in Range(urls_to_visit)

\* C23: the step in which a fetch returns empty HTML finds the URL in the
\* visited set and as the last page of the Site Map, counted in pages_crawled
\* (and in app.py's page counter); it adds no page, no element and no URL to
\* the frontier, raises no error and leaves the loop running.  The URL is
\* never in the frontier again.
C23_FailedFetch ==
  /\ [][(Crawling /\ pc = "fetch" /\ pc' # "fetch" /\ html' = NoHtml) =>
          /\ current_url \in visited_urls
          /\ Pages # <<>> /\ Pages[Len(Pages)] = current_url
          /\ site_map.pages_crawled = Len(Pages)
          /\ variant = "app" => page_num = Len(Pages)
          /\ site_map'.pages = Pages
          /\ site_map'.pages_crawled = site_map.pages_crawled
          /\ site_map'.elements = Elements
          /\ site_map'.elements_discovered = site_map.elements_discovered
          /\ urls_to_visit' = urls_to_visit
          /\ enqueued' = enqueued
          /\ visited_urls' = visited_urls
          /\ page_num' = page_num
          /\ pc' \in {"loop", "sleep"}
          /\ ~error' /\ ~returned' /\ ~was_stopped']_vars
  /\ [](Crawling => \A u \in visited_urls : u \notin Range(urls_to_visit))

\* The second page of a run failed to load while the frontier held URLs: it
\* is a page of the Site Map with no element, and the loop is at its top.
C23_Witness ==
  /\ variant = "orchestrator" /\ pc = "loop" /\ ~error
  /\ site_map.exploration_log # <<>>
  /\ site_map.exploration_log[Len(site_map.exploration_log)] = "Failed"
  /\ site_map.pages_crawled = 2 /\ Len(fetched) = 2
  /\ Elements # <<>>
  /\ \A i \in 1 .. Len(Elements) : Elements[i].page_url # Pages[2]
  /\ urls_to_visit # <<>>

\* C24: a run makes at most max_pages fetches, and, every fetch returning, it
\* ends: whatever the pages link to and whether or not the stop signal is
\* raised, the loop is left.
C24_Terminates ==
  /\ [](Crawling => Len(fetched) <= max_pages)
  /\ <>(pc = "done")

\* The loop was left on the page budget, never stopped, with unvisited URLs
\* still in the frontier.
C24_Witness ==
  /\ Crawling /\ pc = "done" /\ ~error
  /\ ~stop_signal /\ ~was_stopped
  /\ Len(fetched) = max_pages /\ max_pages = MaxBudget
  /\ Len(urls_to_visit) >= LinkCap

\* C28: in the Site Map of a crawl, over all its pages, no two elements have
\* the same id.
C28_UniqueIds ==
  Crawling =>
    \A i, j \in 1 .. Len(Elements) : Elements[i].id = Elements[j].id => i = j

\* C22: what extract_internal_links returns holds only URLs of base_url's
\* registrable domain, none ending in a static-asset extension in either
\* case, none with a query string, a fragment or a trailing "/", none twice,
\* and at most 100 of them; for anchors to https://other.org/p1,
\* https://x.com/p2.png and https://x.com/p1 it is https://x.com/p1 alone.
C22_ExtractLinks ==
  extracted.op = "links" =>
    /\ \A i \in 1 .. Len(extracted.links) :
         LET u == extracted.links[i]
         IN /\ get_domain(u) = get_domain(StartUrl)
            /\ Lower(u.ext) \notin {<<"j", "p", "g">>, <<"j", "p", "e", "g">>,
                                     <<"p", "n", "g">>, <<"g", "i", "f">>,
                                     <<"c", "s", "s">>, <<"j", "s">>,
                                     <<"p", "d", "f">>, <<"z", "i", "p">>}
            /\ DOMAIN u = {"dom", "path", "slash", "ext"}
            /\ ~u.slash
    /\ NoDup(extracted.links)
    /\ Len(extracted.links) <= 100
    /\ html.anchors = <<Href(MkUrl("other", 1, FALSE), FALSE, FALSE),
                        Href([SiteUrl(2) EXCEPT !.ext = <<"p", "n", "g">>], FALSE, FALSE),
                        Href(SiteUrl(1), FALSE, FALSE)>>
         => extracted.links = <<SiteUrl(1)>>

\* The extractor was called on a page of another site's link, an upper-case
\* image with a query string and three spellings of one page, and returned
\* that page once.
C22_Witness ==
  /\ extracted.op = "links"
  /\ html.anchors = <<Href([SiteUrl(2) EXCEPT !.ext = <<"P", "N", "G">>], TRUE, FALSE),
                      Href(SiteUrl(1), TRUE, FALSE),
                      Href(MkUrl("site", 1, TRUE), FALSE, TRUE)>>
  /\ extracted.links = <<SiteUrl(1)>>

\* C27: for every native checkbox or radio input of the document whose
\* (selector, text) no other tag of the page shares, extract_elements returns
\* an element of type CHECKBOX, respectively RADIO, and none of type INPUT.
C27_CheckboxTyped ==
  extracted.op = "elements" =>
    \A i \in 1 .. Len(html.nodes) :
      LET n == html.nodes[i]
          OfNode == {e \in Range(extracted.elements) :
                       e.selector = n.selector /\ e.text = n.text}
      IN (/\ n.tag = "input" /\ n.type \in {"checkbox", "radio"}
          /\ \A j \in 1 .. Len(html.nodes) :
               (html.nodes[j].selector = n.selector /\ html.nodes[j].text = n.text)
                 => j = i)
         => /\ \E e \in OfNode : e.type = n.type
            /\ \A e \in OfNode : e.type # "input"

====
